---- MODULE Spec2Model ----
(***************************************************************************)
(* Trust-federation control plane of lib/auth/trustedcluster.go:           *)
(* UpsertTrustedCluster, EnsureTrustedClusters, DeleteTrustedCluster and   *)
(* the orphan-CA collector trustController.cycle, over the CA store, the   *)
(* Presence store and the reverse-tunnel registry.                         *)
(***************************************************************************)
EXTENDS Integers, Sequences, FiniteSets, TLC

VARIABLES cas, tcs, tunnels, suspectedOrphanCAs, now, faults, remoteClusters,
          inFlight, wire

vars == <<cas, tcs, tunnels, suspectedOrphanCAs, now, faults, remoteClusters, inFlight, wire>>

(***************************************************************************)
(* Bounds and configuration                                                *)
(***************************************************************************)
\* latest wall-clock time a collector cycle is run at
MaxTime == 2
\* transient backend failures injected in one behaviour
MaxFaults == 1
\* trustController.orphanAfter
orphanAfter == 1

\* the local cluster's domain name (GetDomainName / GetClusterName)
LocalDomain == "root"
\* cluster names a CA or a descriptor can carry
ClusterNames == {"east", "root", "west"}
\* the order in which the backend lists resources (by key)
NameOrder == <<"east", "root", "west">>
\* names an administrator can submit; "" is the omitted name
SubmittedNames == ClusterNames \cup {""}
UserCA == "user"
HostCA == "host"
\* roles defined in the local role store
LocalRoles == {"admin"}

Ok == "ok"

\* Facade calls that can fail with a transient backend error during one
\* handler invocation.
Faults == {"none", "ActivateHostCA", "DeactivateHostCA", "CreateCertAuthority",
           "DeleteCertAuthority", "UpsertReverseTunnel", "DeleteReverseTunnel",
           "PresenceUpsertTrustedCluster", "PresenceDeleteTrustedCluster",
           "EmitAuditEvent"}

(***************************************************************************)
(* Resources                                                               *)
(***************************************************************************)
\* a CA as returned by the remote: type, Spec.ClusterName and the cluster
\* names in the subjects of its TLS certificates ("?" does not parse)
RemoteCA(type, clusterName, tls) ==
    [type |-> type, clusterName |-> clusterName, tls |-> tls]

\* a stored CA: id = (type, name), the embedded cluster name, the state,
\* the roles / role map copied from the descriptor, and the TLS key pairs
StoredCA(type, name, clusterName, active, roles, tls) ==
    [type |-> type, name |-> name, clusterName |-> clusterName,
     active |-> active, roles |-> roles, tls |-> tls]

TrustedCluster(name, enabled, roleMap) ==
    [name |-> name, enabled |-> enabled, roleMap |-> roleMap]

Lookup(cs, type, name) == {c \in cs : c.type = type /\ c.name = name}

HasCA(cs, type, name) == Lookup(cs, type, name) # {}

HasTC(ds, name) == \E d \in ds : d.name = name

GetTC(ds, name) == CHOOSE d \in ds : d.name = name

(***************************************************************************)
(* CA store facade                                                         *)
(***************************************************************************)
SetActive(cs, type, name, active) ==
    {IF c.type = type /\ c.name = name THEN [c EXCEPT !.active = active] ELSE c
        : c \in cs}

\* activates an inactive CA; not-found when there is no inactive CA to
\* activate (it is already active, or it does not exist)
ActivateCertAuthority(cs, type, name, f) ==
    IF f = "ActivateHostCA" /\ type = HostCA
    THEN [cas |-> cs, err |-> "internal"]
    ELSE IF \E c \in Lookup(cs, type, name) : ~c.active
         THEN [cas |-> SetActive(cs, type, name, TRUE), err |-> Ok]
         ELSE [cas |-> cs, err |-> "not-found"]

\* deactivates an active CA; not-found when there is no active CA
DeactivateCertAuthority(cs, type, name, f) ==
    IF f = "DeactivateHostCA" /\ type = HostCA
    THEN [cas |-> cs, err |-> "internal"]
    ELSE IF \E c \in Lookup(cs, type, name) : c.active
         THEN [cas |-> SetActive(cs, type, name, FALSE), err |-> Ok]
         ELSE [cas |-> cs, err |-> "not-found"]

\* create-only insert under the CA's id
CreateCertAuthority(cs, ca, f) ==
    IF f = "CreateCertAuthority"
    THEN [cas |-> cs, err |-> "internal"]
    ELSE IF HasCA(cs, ca.type, ca.name)
         THEN [cas |-> cs, err |-> "already-exists"]
         ELSE [cas |-> cs \cup {ca}, err |-> Ok]

DeleteCertAuthority(cs, type, name, f) ==
    IF f = "DeleteCertAuthority"
    THEN [cas |-> cs, err |-> "internal"]
    ELSE IF HasCA(cs, type, name)
         THEN [cas |-> cs \ Lookup(cs, type, name), err |-> Ok]
         ELSE [cas |-> cs, err |-> "not-found"]

\* GetCertAuthority: the CA under the id, in either state
GetCertAuthority(cs, type, name) ==
    IF HasCA(cs, type, name) THEN Ok ELSE "not-found"

(***************************************************************************)
(* Tunnel registry and Presence facades                                    *)
(***************************************************************************)
UpsertReverseTunnel(ts, name, f) ==
    IF f = "UpsertReverseTunnel"
    THEN [tunnels |-> ts, err |-> "internal"]
    ELSE [tunnels |-> ts \cup {name}, err |-> Ok]

DeleteReverseTunnel(ts, name, f) ==
    IF f = "DeleteReverseTunnel"
    THEN [tunnels |-> ts, err |-> "internal"]
    ELSE IF name \in ts
         THEN [tunnels |-> ts \ {name}, err |-> Ok]
         ELSE [tunnels |-> ts, err |-> "not-found"]

PresenceUpsertTrustedCluster(ds, tc, f) ==
    IF f = "PresenceUpsertTrustedCluster"
    THEN [tcs |-> ds, err |-> "internal"]
    ELSE [tcs |-> {d \in ds : d.name # tc.name} \cup {tc}, err |-> Ok]

PresenceDeleteTrustedCluster(ds, name, f) ==
    IF f = "PresenceDeleteTrustedCluster"
    THEN [tcs |-> ds, err |-> "internal"]
    ELSE IF HasTC(ds, name)
         THEN [tcs |-> {d \in ds : d.name # name}, err |-> Ok]
         ELSE [tcs |-> ds, err |-> "not-found"]

\* TrustedCluster.CanChangeStateTo: the enabled flag may be toggled, the
\* identifying fields may not change
CanChangeStateTo(existing, tc) ==
    IF existing.roleMap # tc.roleMap THEN "invalid-transition" ELSE Ok

(***************************************************************************)
(* Validation RPC, initiator side                                          *)
(***************************************************************************)
\* a role check that takes every local role for defined
checkLocalRolesLenient(roleMap) == Ok

\* lines 277-295
checkLocalRoles(roleMap) ==
    IF roleMap = "{{internal.logins}}" THEN Ok
    ELSE IF roleMap \in LocalRoles THEN Ok ELSE "not-found"

\* the cluster names of all TLS certificates of the CAs, in inspection order
RECURSIVE TLSSubjects(_)
TLSSubjects(remoteCAs) ==
    IF remoteCAs = <<>> THEN <<>>
    ELSE Head(remoteCAs).tls \o TLSSubjects(Tail(remoteCAs))

\* the loop over validateResponse.CAs and their key pairs
RECURSIVE InspectCertificates(_)
InspectCertificates(subjects) ==
    IF subjects = <<>> THEN Ok
    ELSE IF Head(subjects) = "?" THEN "parse-error"
    ELSE IF Head(subjects) = LocalDomain THEN "bad-parameter"
    ELSE InspectCertificates(Tail(subjects))

Inspected(out, verdict) ==
    IF verdict # Ok THEN [err |-> verdict, cas |-> <<>>]
    ELSE [err |-> Ok, cas |-> out.cas]

\* out is what sendValidateRequestToProxy yields: an error or the CAs
establishTrust(out) ==
    IF out.err # Ok
    THEN [err |-> IF out.err = "x509" THEN "access-denied" ELSE out.err,
          cas |-> <<>>]
    ELSE Inspected(out, InspectCertificates(TLSSubjects(out.cas)))

\* lines 409-418: the remote CA renamed to the descriptor, its roles wiped
\* and, for a UserCA, set from the descriptor
ImportedCA(trustedCluster, r) ==
    StoredCA(r.type, trustedCluster.name, r.clusterName, TRUE,
             IF r.type = UserCA THEN trustedCluster.roleMap ELSE "", r.tls)

RECURSIVE addCertAuthorities(_, _, _, _)
\* an import that steps over a taken id instead of returning the error
AddNextSkipping(c, trustedCluster, rest, f) ==
    IF c.err # Ok /\ c.err # "already-exists" THEN c
    ELSE addCertAuthorities(c.cas, trustedCluster, rest, f)

AddNext(c, trustedCluster, rest, f) ==
    IF c.err # Ok THEN c ELSE addCertAuthorities(c.cas, trustedCluster, rest, f)

addCertAuthorities(cs, trustedCluster, remoteCAs, f) ==
    IF remoteCAs = <<>> THEN [cas |-> cs, err |-> Ok]
    ELSE AddNext(CreateCertAuthority(cs, ImportedCA(trustedCluster, Head(remoteCAs)), f),
                 trustedCluster, Tail(remoteCAs), f)

(***************************************************************************)
(* Activation helpers                                                      *)
(***************************************************************************)
\* an activation that handles the HostCA first and stops at its error
activateCertAuthorityHostFirst(cs, name, f) ==
    IF ActivateCertAuthority(cs, HostCA, name, f).err # Ok
    THEN ActivateCertAuthority(cs, HostCA, name, f)
    ELSE ActivateCertAuthority(ActivateCertAuthority(cs, HostCA, name, f).cas,
                               UserCA, name, f)

\* lines 748-763: the UserCA first; its error ends the call
activateCertAuthority(cs, name, f) ==
    IF ActivateCertAuthority(cs, UserCA, name, f).err # Ok
    THEN ActivateCertAuthority(cs, UserCA, name, f)
    ELSE ActivateCertAuthority(ActivateCertAuthority(cs, UserCA, name, f).cas,
                               HostCA, name, f)

\* lines 784-791: the UserCA first; its error ends the call
deactivateCertAuthority(cs, name, f) ==
    IF DeactivateCertAuthority(cs, UserCA, name, f).err # Ok
    THEN DeactivateCertAuthority(cs, UserCA, name, f)
    ELSE DeactivateCertAuthority(DeactivateCertAuthority(cs, UserCA, name, f).cas,
                                 HostCA, name, f)

getCertAuthorities(cs, name) ==
    IF GetCertAuthority(cs, UserCA, name) # Ok THEN "not-found"
    ELSE GetCertAuthority(cs, HostCA, name)

createReverseTunnel(ts, name, f) == UpsertReverseTunnel(ts, name, f)

(***************************************************************************)
(* Trust Reconciler: UpsertTrustedCluster                                  *)
(* st = [cas, tcs, tunnels]; the result carries the store after the call,  *)
(* the returned descriptor, the error kind, the number of validation       *)
(* requests sent and the audit events emitted.                             *)
(***************************************************************************)
Store(cs, ds, ts) == [cas |-> cs, tcs |-> ds, tunnels |-> ts]

WithCAs(st, cs) == [st EXCEPT !.cas = cs]

WithTunnels(st, ts) == [st EXCEPT !.tunnels = ts]

WithTCs(st, ds) == [st EXCEPT !.tcs = ds]

Result(st, tc, err, rpc, audit) ==
    [st |-> st, tc |-> tc, err |-> err, rpc |-> rpc, audit |-> audit]

\* an emission whose failure fails the call
AuditedOrFailed(st, tc, rpc, f, p) ==
    IF p.err # Ok THEN Result(st, tc, p.err, rpc, <<>>)
    ELSE IF f = "EmitAuditEvent" THEN Result(WithTCs(st, p.tcs), tc, "internal", rpc, <<>>)
    ELSE Result(WithTCs(st, p.tcs), tc, Ok, rpc, <<"TrustedClusterCreate">>)

\* lines 144-150: emit TrustedClusterCreate; a failure is logged only
Audited(st, tc, rpc, f, p) ==
    IF p.err # Ok THEN Result(st, tc, p.err, rpc, <<>>)
    ELSE Result(WithTCs(st, p.tcs), tc, Ok, rpc,
                IF f = "EmitAuditEvent" THEN <<>> ELSE <<"TrustedClusterCreate">>)

\* lines 139-142: persist the descriptor
PersistAndAudit(st, tc, rpc, f) ==
    Audited(st, tc, rpc, f, PresenceUpsertTrustedCluster(st.tcs, tc, f))

\* the step after the state-specific actions: t is the result of the
\* tunnel call, st the store before it
AfterTunnel(st, tc, rpc, f, t) ==
    IF t.err # Ok THEN Result(st, tc, t.err, rpc, <<>>)
    ELSE PersistAndAudit(WithTunnels(st, t.tunnels), tc, rpc, f)

\* lines 68-77
EnableActivated(st, tc, f, a) ==
    IF a.err = "not-found" THEN Result(WithCAs(st, a.cas), tc, "bad-parameter", 0, <<>>)
    ELSE IF a.err # Ok THEN Result(WithCAs(st, a.cas), tc, a.err, 0, <<>>)
    ELSE AfterTunnel(WithCAs(st, a.cas), tc, 0, f,
                     createReverseTunnel(st.tunnels, tc.name, f))

\* case exists == true && enable == true
EnableExisting(st, tc, f) ==
    EnableActivated(st, tc, f, activateCertAuthority(st.cas, tc.name, f))

\* lines 81-90
DisableDeactivated(st, tc, f, d) ==
    IF d.err = "not-found" THEN Result(WithCAs(st, d.cas), tc, "bad-parameter", 0, <<>>)
    ELSE IF d.err # Ok THEN Result(WithCAs(st, d.cas), tc, d.err, 0, <<>>)
    ELSE AfterTunnel(WithCAs(st, d.cas), tc, 0, f,
                     DeleteReverseTunnel(st.tunnels, tc.name, f))

\* case exists == true && enable == false
DisableExisting(st, tc, f) ==
    DisableDeactivated(st, tc, f, deactivateCertAuthority(st.cas, tc.name, f))

\* lines 134-136: deactivate the imported CAs of a descriptor created disabled
AfterDeactivate(st, tc, f, d) ==
    IF d.err # Ok THEN Result(WithCAs(st, d.cas), tc, d.err, 1, <<>>)
    ELSE PersistAndAudit(WithCAs(st, d.cas), tc, 1, f)

\* lines 107-113 and 130-136: i is the result of addCertAuthorities
AfterImport(st, tc, f, i) ==
    IF i.err # Ok THEN Result(WithCAs(st, i.cas), tc, i.err, 1, <<>>)
    ELSE IF tc.enabled
         THEN AfterTunnel(WithCAs(st, i.cas), tc, 1, f,
                          createReverseTunnel(st.tunnels, tc.name, f))
         ELSE AfterDeactivate(st, tc, f, deactivateCertAuthority(i.cas, tc.name, f))

\* a descriptor that keeps the name it was submitted with
PinnedAsSubmitted(trustedCluster, remoteCAs) == trustedCluster

\* lines 105 and 128: trustedCluster.SetName(remoteCAs[0].GetClusterName())
Pinned(trustedCluster, remoteCAs) ==
    [trustedCluster EXCEPT !.name = remoteCAs[1].clusterName]

Import(st, tc, remoteCAs, f) ==
    AfterImport(st, tc, f, addCertAuthorities(st.cas, tc, remoteCAs, f))

\* lines 98-105 and 122-128: e is the result of establishTrust
AfterHandshake(st, trustedCluster, f, e) ==
    IF e.err # Ok THEN Result(st, trustedCluster, e.err, 1, <<>>)
    ELSE IF e.cas = <<>> THEN Result(st, trustedCluster, "panic", 1, <<>>)
    ELSE Import(st, Pinned(trustedCluster, e.cas), e.cas, f)

\* cases exists == false: first enrolment, enabled or disabled
Enrol(st, trustedCluster, out, f) ==
    IF checkLocalRoles(trustedCluster.roleMap) # Ok
    THEN Result(st, trustedCluster, checkLocalRoles(trustedCluster.roleMap), 0, <<>>)
    ELSE AfterHandshake(st, trustedCluster, f, establishTrust(out))

\* lines 57-61
ChangeState(st, trustedCluster, f, change) ==
    IF change # Ok THEN Result(st, trustedCluster, change, 0, <<>>)
    ELSE IF trustedCluster.enabled THEN EnableExisting(st, trustedCluster, f)
    ELSE DisableExisting(st, trustedCluster, f)

UpsertTrustedCluster(st, trustedCluster, out, f) ==
    IF trustedCluster.name # "" /\ HasTC(st.tcs, trustedCluster.name)
    THEN ChangeState(st, trustedCluster, f,
                     CanChangeStateTo(GetTC(st.tcs, trustedCluster.name), trustedCluster))
    ELSE Enrol(st, trustedCluster, out, f)

(***************************************************************************)
(* Ensure Loop: EnsureTrustedClusters, ensureEnabled, ensureDisabled       *)
(***************************************************************************)
EnsureResult(st, tc, renamed, err, rpc) ==
    [st |-> st, tc |-> tc, renamed |-> renamed, err |-> err, rpc |-> rpc]

\* line 232: return renamed, trace.Wrap(a.createReverseTunnel(tc))
EnsureTunnel(st, tc, renamed, rpc, f) ==
    EnsureResult(WithTunnels(st, createReverseTunnel(st.tunnels, tc.name, f).tunnels),
                 tc, renamed, createReverseTunnel(st.tunnels, tc.name, f).err, rpc)

\* lines 227-229
EnsureImported(st, tc, renamed, f, i) ==
    IF i.err # Ok THEN EnsureResult(WithCAs(st, i.cas), tc, renamed, i.err, 1)
    ELSE EnsureTunnel(WithCAs(st, i.cas), tc, renamed, 1, f)

\* lines 223-226: the descriptor takes the name of the first returned CA
EnsureRenamed(st, tc, name, remoteCAs, f) ==
    EnsureImported(st, [tc EXCEPT !.name = name], name # tc.name, f,
                   addCertAuthorities(st.cas, [tc EXCEPT !.name = name], remoteCAs, f))

\* lines 219-222: first handshake from the Ensure Loop
EnsureEstablished(st, tc, f, e) ==
    IF e.err # Ok THEN EnsureResult(st, tc, FALSE, e.err, 1)
    ELSE IF e.cas = <<>> THEN EnsureResult(st, tc, FALSE, "panic", 1)
    ELSE EnsureRenamed(st, tc, e.cas[1].clusterName, e.cas, f)

\* an ensureEnabled that takes every not-found activation for missing trust
EnsureActivatedRehandshake(st, tc, out, f, a) ==
    IF a.err # Ok /\ a.err # "not-found"
    THEN EnsureResult(WithCAs(st, a.cas), tc, FALSE, a.err, 0)
    ELSE IF a.err = "not-found"
         THEN EnsureEstablished(WithCAs(st, a.cas), tc, f, establishTrust(out))
         ELSE EnsureTunnel(WithCAs(st, a.cas), tc, FALSE, 0, f)

\* lines 207-231: a is the result of activateCertAuthority
EnsureActivated(st, tc, out, f, a) ==
    IF a.err # Ok /\ a.err # "not-found"
    THEN EnsureResult(WithCAs(st, a.cas), tc, FALSE, a.err, 0)
    ELSE IF a.err = "not-found" /\ getCertAuthorities(a.cas, tc.name) = "not-found"
         THEN EnsureEstablished(WithCAs(st, a.cas), tc, f, establishTrust(out))
         ELSE EnsureTunnel(WithCAs(st, a.cas), tc, FALSE, 0, f)

ensureEnabled(st, tc, out, f) ==
    EnsureActivated(st, tc, out, f, activateCertAuthority(st.cas, tc.name, f))

\* lines 271-274
EnsureUntunnelled(st, tc, t) ==
    IF t.err # Ok /\ t.err # "not-found" THEN EnsureResult(st, tc, FALSE, t.err, 0)
    ELSE EnsureResult(WithTunnels(st, t.tunnels), tc, FALSE, Ok, 0)

\* lines 268-270
EnsureDeactivated(st, tc, f, d) ==
    IF d.err # Ok /\ d.err # "not-found"
    THEN EnsureResult(WithCAs(st, d.cas), tc, FALSE, d.err, 0)
    ELSE EnsureUntunnelled(WithCAs(st, d.cas), tc,
                           DeleteReverseTunnel(st.tunnels, tc.name, f))

ensureDisabled(st, tc, f) ==
    EnsureDeactivated(st, tc, f, deactivateCertAuthority(st.cas, tc.name, f))

Errs(err) == IF err = Ok THEN <<>> ELSE <<err>>

\* a commit that deletes the old entry whether or not the new one was stored
RenameStoredRegardless(ds, name, f, p) ==
    [tcs |-> PresenceDeleteTrustedCluster(p.tcs, name, f).tcs,
     errs |-> Errs(p.err) \o Errs(PresenceDeleteTrustedCluster(p.tcs, name, f).err)]

\* lines 188-195: store the descriptor under the new name first, then
\* delete the entry under the old name
RenameStored(ds, name, f, p) ==
    IF p.err # Ok THEN [tcs |-> ds, errs |-> <<p.err>>]
    ELSE [tcs |-> PresenceDeleteTrustedCluster(p.tcs, name, f).tcs,
          errs |-> Errs(PresenceDeleteTrustedCluster(p.tcs, name, f).err)]

RenameCommit(ds, tc, name, f) ==
    RenameStored(ds, name, f, PresenceUpsertTrustedCluster(ds, tc, f))

EnsureEntry(name, final, enabled, errs) ==
    [name |-> name, final |-> final, enabled |-> enabled, errs |-> errs]

EnsureCommitted(tc, r, c) ==
    [st |-> WithTCs(r.st, c.tcs), tc |-> r.tc,
     entry |-> EnsureEntry(tc.name, r.tc.name, tc.enabled, Errs(r.err) \o c.errs),
     rpc |-> r.rpc, panic |-> FALSE]

\* a loop that commits the rename only of a descriptor reconciled without error
EnsureCheckedOnSuccess(tc, f, r) ==
    IF r.err # Ok \/ ~r.renamed
    THEN [st |-> r.st, tc |-> r.tc,
          entry |-> EnsureEntry(tc.name, r.tc.name, tc.enabled, Errs(r.err)),
          rpc |-> r.rpc, panic |-> r.err = "panic"]
    ELSE EnsureCommitted(tc, r, RenameCommit(r.st.tcs, r.tc, tc.name, f))

\* lines 180-195: r is the result of ensureEnabled or ensureDisabled
EnsureChecked(tc, f, r) ==
    IF r.err = "panic" \/ ~r.renamed
    THEN [st |-> r.st, tc |-> r.tc,
          entry |-> EnsureEntry(tc.name, r.tc.name, tc.enabled, Errs(r.err)),
          rpc |-> r.rpc, panic |-> r.err = "panic"]
    ELSE EnsureCommitted(tc, r, RenameCommit(r.st.tcs, r.tc, tc.name, f))

\* one iteration of the loop of lines 172-196, for the descriptor tc
EnsureOne(st, tc, out, f) ==
    EnsureChecked(tc, f, IF tc.enabled THEN ensureEnabled(st, tc, out, f)
                         ELSE ensureDisabled(st, tc, f))

\* the descriptors as the backend lists them
TrustedClusterList(ds) ==
    LET names == SelectSeq(NameOrder, LAMBDA n : HasTC(ds, n))
    IN [i \in 1..Len(names) |-> GetTC(ds, names[i])]

\* the loop over tcs; a panic in one iteration ends the pass.  The result
\* carries the descriptors as the loop left them in memory (ensureEnabled
\* renames them in place).
RECURSIVE EnsureLoop(_, _, _, _)
EnsureRest(o, rest) ==
    [st |-> rest.st, tcs |-> <<o.tc>> \o rest.tcs, res |-> <<o.entry>> \o rest.res,
     rpc |-> o.rpc + rest.rpc, panic |-> rest.panic]

EnsureNext(o, list, out, f) ==
    IF o.panic
    THEN [st |-> o.st, tcs |-> list, res |-> <<o.entry>>, rpc |-> o.rpc, panic |-> TRUE]
    ELSE EnsureRest(o, EnsureLoop(o.st, Tail(list), out, f))

EnsureLoop(st, list, out, f) ==
    IF list = <<>>
    THEN [st |-> st, tcs |-> <<>>, res |-> <<>>, rpc |-> 0, panic |-> FALSE]
    ELSE EnsureNext(EnsureOne(st, Head(list), out, f), list, out, f)

\* tcs empty: the descriptors are loaded from the backend
EnsureTrustedClusters(st, list, out, f) ==
    EnsureLoop(st, IF list = <<>> THEN TrustedClusterList(st.tcs) ELSE list, out, f)

(***************************************************************************)
(* DeleteTrustedCluster                                                    *)
(***************************************************************************)
DeleteResult(st, err, audit) == [st |-> st, err |-> err, audit |-> audit]

\* lines 328-338
DescriptorDeleted(st, f, d) ==
    IF d.err # Ok THEN DeleteResult(st, d.err, <<>>)
    ELSE DeleteResult(WithTCs(st, d.tcs), Ok,
                      IF f = "EmitAuditEvent" THEN <<>> ELSE <<"TrustedClusterDelete">>)

\* a deletion that fails when the reverse tunnel is absent
TunnelDeletedStrict(st, name, f, t) ==
    IF t.err # Ok THEN DeleteResult(st, t.err, <<>>)
    ELSE DescriptorDeleted(WithTunnels(st, t.tunnels), f,
                           PresenceDeleteTrustedCluster(st.tcs, name, f))

\* lines 322-326
TunnelDeleted(st, name, f, t) ==
    IF t.err # Ok /\ t.err # "not-found" THEN DeleteResult(st, t.err, <<>>)
    ELSE DescriptorDeleted(WithTunnels(st, t.tunnels), f,
                           PresenceDeleteTrustedCluster(st.tcs, name, f))

\* lines 316-320
UserCADeleted(st, name, f, u) ==
    IF u.err # Ok /\ u.err # "not-found" THEN DeleteResult(st, u.err, <<>>)
    ELSE TunnelDeleted(WithCAs(st, u.cas), name, f,
                       DeleteReverseTunnel(st.tunnels, name, f))

\* lines 310-314
HostCADeleted(st, name, f, h) ==
    IF h.err # Ok /\ h.err # "not-found" THEN DeleteResult(st, h.err, <<>>)
    ELSE UserCADeleted(WithCAs(st, h.cas), name, f,
                       DeleteCertAuthority(h.cas, UserCA, name, f))

\* a deletion without the check of lines 305-308
DeleteTrustedClusterUnguarded(st, name, f) ==
    HostCADeleted(st, name, f, DeleteCertAuthority(st.cas, HostCA, name, f))

DeleteTrustedCluster(st, name, f) ==
    IF LocalDomain = name THEN DeleteResult(st, "bad-parameter", <<>>)
    ELSE HostCADeleted(st, name, f, DeleteCertAuthority(st.cas, HostCA, name, f))

(***************************************************************************)
(* Orphan Collector: trustController.cycle                                 *)
(***************************************************************************)
suspectedOrphanCA(ca, since, seen) == [ca |-> ca, since |-> since, seen |-> seen]

\* lines 847-849 and 872-878 assign to sus, the loop variable of a range
\* over a slice of structs: the assignment changes the copy, the slice
\* element keeps the flag it was appended with
SetSeen(suspects, i, seen) == suspects

RECURSIVE ResetSeen(_, _)
ResetSeen(suspects, i) ==
    IF i > Len(suspects) THEN suspects
    ELSE ResetSeen(SetSeen(suspects, i, FALSE), i + 1)

\* GetCertAuthorities(caType): the CAs of a type as the backend lists them
CertAuthorityList(cs, type) ==
    LET names == SelectSeq(NameOrder, LAMBDA n : HasCA(cs, type, n))
    IN [i \in 1..Len(names) |-> CHOOSE c \in cs : c.type = type /\ c.name = names[i]]

\* an orphan test that also spares the CAs of the peers with a
\* RemoteCluster record
CoveredOrRemote(ca, list) ==
    \/ ca.clusterName = LocalDomain
    \/ \E i \in 1..Len(list) : list[i].name = ca.clusterName
    \/ ca.clusterName \in remoteClusters

\* lines 861-870: the CA belongs to the local cluster or to a descriptor
Covered(ca, list) ==
    \/ ca.clusterName = LocalDomain
    \/ \E i \in 1..Len(list) : list[i].name = ca.clusterName

\* ca.Equals(sus.ca) for some tracked suspect: the index of the first, or 0
Tracked(suspects, ca) ==
    IF \E i \in 1..Len(suspects) : suspects[i].ca = ca
    THEN CHOOSE i \in 1..Len(suspects) :
            /\ suspects[i].ca = ca
            /\ \A j \in 1..(i - 1) : suspects[j].ca # ca
    ELSE 0

\* the Processing loop over the CAs of one type; acc = [suspects, next]
RECURSIVE Processing(_, _, _, _)
Processing(acc, calist, list, t) ==
    IF calist = <<>> THEN acc
    ELSE LET ca == Head(calist)
             i == Tracked(acc.suspects, ca)
         IN IF Covered(ca, list) THEN Processing(acc, Tail(calist), list, t)
            ELSE IF i # 0
                 THEN Processing([acc EXCEPT !.suspects = SetSeen(@, i, TRUE)],
                                 Tail(calist), list, t)
                 ELSE Processing([acc EXCEPT !.next =
                                     Append(@, suspectedOrphanCA(ca, t, TRUE))],
                                 Tail(calist), list, t)

\* a cutoff that waits one tick longer
CutoffReachedLate(t, since) == t > since /\ t - since > orphanAfter + 1

\* line 896
CutoffReached(t, since) == t > since /\ t - since > orphanAfter

\* lines 890-905: the loop over the tracked suspects; acc = [cas, next]
RECURSIVE Sweep(_, _, _, _)
Sweep(acc, suspects, t, f) ==
    IF suspects = <<>> THEN acc
    ELSE LET sus == Head(suspects)
             d == DeleteCertAuthority(acc.cas, sus.ca.type, sus.ca.name, f)
         IN IF ~sus.seen THEN Sweep(acc, Tail(suspects), t, f)
            ELSE IF CutoffReached(t, sus.since)
                 THEN Sweep([acc EXCEPT !.cas = d.cas], Tail(suspects), t, f)
                 ELSE Sweep([acc EXCEPT !.next = Append(@, sus)],
                            Tail(suspects), t, f)

CycleResult(st, suspects, res, rpc, panic) ==
    [st |-> st, suspects |-> suspects, res |-> res, rpc |-> rpc, panic |-> panic]

\* line 906: c.suspectedOrphanCAs = nextSuspects
Swept(e, swept) ==
    CycleResult(WithCAs(e.st, swept.cas), swept.next, e.res, e.rpc, FALSE)

\* lines 890-905: p is the result of the Processing loops
Processed(e, p, t, f) ==
    Swept(e, Sweep([cas |-> e.st.cas, next |-> p.next], p.suspects, t, f))

\* lines 853-888, HostCA; user is the result of the loop over the UserCAs
ProcessedUser(e, user, t, f) ==
    Processed(e, Processing(user, CertAuthorityList(e.st.cas, HostCA), e.tcs, t), t, f)

\* lines 840-888: e is the result of EnsureTrustedClusters, whose error is
\* logged only; tcs is the list it was given
Ensured(e, suspects, t, f) ==
    IF e.panic THEN CycleResult(e.st, suspects, e.res, e.rpc, TRUE)
    ELSE ProcessedUser(e, Processing([suspects |-> ResetSeen(suspects, 1), next |-> <<>>],
                                     CertAuthorityList(e.st.cas, UserCA), e.tcs, t),
                       t, f)

cycle(st, suspects, t, out, f) ==
    Ensured(EnsureTrustedClusters(st, TrustedClusterList(st.tcs), out, f),
            suspects, t, f)

(***************************************************************************)
(* Environment of one handler invocation: what the remote answers to a     *)
(* validation request, and the facade call that fails                      *)
(***************************************************************************)
Response(remoteCAs) == [err |-> Ok, cas |-> remoteCAs]

\* a responder that returns its HostCA and UserCA, certificates included
Honest(n) == Response(<<RemoteCA(HostCA, n, <<n>>), RemoteCA(UserCA, n, <<n>>)>>)

\* CAs without TLS key pairs
Bare(n, m) == Response(<<RemoteCA(HostCA, n, <<>>), RemoteCA(UserCA, m, <<>>)>>)

Outcomes ==
    {Honest(n) : n \in ClusterNames}
    \cup {Bare("east", "root"), Bare("root", "root"), Bare("east", "west")}
    \cup {Response(<<RemoteCA(HostCA, "east", <<"east">>)>>),
          Response(<<RemoteCA(HostCA, "east", <<"?">>)>>),
          Response(<<>>)}
    \cup {[err |-> "access-denied", cas |-> <<>>], [err |-> "x509", cas |-> <<>>]}

Env(out, f) == [out |-> out, f |-> f]

\* every answer in outs with a healthy backend and, while fewer than
\* MaxFaults failures were injected, every failure in fs with a
\* well-behaved remote
Envs(outs, fs, n) ==
    {Env(out, "none") : out \in outs}
    \cup (IF n < MaxFaults
          THEN {Env(Honest(m), f) : m \in {"east", "west"}, f \in fs \ {"none"}}
          ELSE {})

Injected(env) == IF env.f = "none" THEN 0 ELSE 1

\* the calls an administrator makes: any name and flag with a defined role
\* map in any environment, and an undefined role map
UpsertCalls(envs) ==
    {[tc |-> TrustedCluster(name, enabled, "admin"), env |-> env] :
        name \in SubmittedNames, enabled \in BOOLEAN, env \in envs}
    \cup {[tc |-> TrustedCluster(name, enabled, "nobody"),
           env |-> Env(Honest("east"), "none")] :
        name \in SubmittedNames, enabled \in BOOLEAN}

(***************************************************************************)
(* Responder: validateTrustedCluster                                       *)
(***************************************************************************)
\* the roles of the token records the responder holds: a trusted-cluster
\* token (teleport.RoleTrustedCluster), a legacy one
\* (teleport.LegacyClusterTokenType) and a node join token
ProvisionTokens ==
    [tok |-> {"Trusted_cluster"}, legacy |-> {"Trustedcluster"}, node |-> {"Node"}]

ValidateToken(token) ==
    IF token \in DOMAIN ProvisionTokens
    THEN [roles |-> ProvisionTokens[token], err |-> Ok]
    ELSE [roles |-> {}, err |-> "not-found"]

\* a token check that accepts every token the responder issued
validateTrustedClusterTokenAnyRole(token) ==
    IF ValidateToken(token).err # Ok THEN "access-denied" ELSE Ok

\* lines 585-596
validateTrustedClusterToken(token) ==
    IF ValidateToken(token).err # Ok THEN "access-denied"
    ELSE IF /\ "Trusted_cluster" \notin ValidateToken(token).roles
            /\ "Trustedcluster" \notin ValidateToken(token).roles
         THEN "access-denied"
         ELSE Ok

\* the HostCA an initiator named n sends with its request
InboundCA(n) == StoredCA(HostCA, n, n, TRUE, "", <<n>>)

\* requests with an issued or an unknown ("nope") token and one or two CAs
ValidateRequests ==
    {[token |-> token, cas |-> remoteCAs] :
        token \in {"tok", "legacy", "node", "nope"},
        remoteCAs \in {<<InboundCA(n)>> : n \in ClusterNames}
                      \cup {<<InboundCA("east"), InboundCA("west")>>,
                            <<InboundCA("east"), InboundCA("root")>>,
                            <<InboundCA("root"), InboundCA("west")>>}}

ResponderFaults == {"none", "CreateRemoteCluster", "UpsertCertAuthority"}

\* CreateRemoteCluster is create-only
CreateRemoteCluster(rcs, name, f) ==
    IF f = "CreateRemoteCluster" THEN [remoteClusters |-> rcs, err |-> "internal"]
    ELSE IF name \in rcs THEN [remoteClusters |-> rcs, err |-> "already-exists"]
    ELSE [remoteClusters |-> rcs \cup {name}, err |-> Ok]

\* UpsertCertAuthority replaces whatever is stored under the id
UpsertCertAuthority(cs, ca, f) ==
    IF f = "UpsertCertAuthority" THEN [cas |-> cs, err |-> "internal"]
    ELSE [cas |-> (cs \ Lookup(cs, ca.type, ca.name)) \cup {ca}, err |-> Ok]

\* the stores after the call and what it returns: the error or the CAs
ValidateResult(cs, rcs, err, remoteCAs) ==
    [cas |-> cs, remoteClusters |-> rcs, out |-> [err |-> err, cas |-> remoteCAs]]

\* the stored CA (type, LocalDomain) as it is put on the wire
Exported(cs, type) ==
    RemoteCA(type, (CHOOSE c \in Lookup(cs, type, LocalDomain) : TRUE).clusterName,
             (CHOOSE c \in Lookup(cs, type, LocalDomain) : TRUE).tls)

\* lines 566-582: the response is the local HostCA, then the local UserCA
ValidateExported(cs, rcs) ==
    IF GetCertAuthority(cs, HostCA, LocalDomain) # Ok
    THEN ValidateResult(cs, rcs, GetCertAuthority(cs, HostCA, LocalDomain), <<>>)
    ELSE IF GetCertAuthority(cs, UserCA, LocalDomain) # Ok
    THEN ValidateResult(cs, rcs, GetCertAuthority(cs, UserCA, LocalDomain), <<>>)
    ELSE ValidateResult(cs, rcs, Ok, <<Exported(cs, HostCA), Exported(cs, UserCA)>>)

\* lines 558-564: upsert the inbound CAs in order
RECURSIVE ValidateUpserting(_, _, _, _)
ValidateUpserting(cs, rcs, remoteCAs, f) ==
    IF remoteCAs = <<>> THEN ValidateExported(cs, rcs)
    ELSE IF UpsertCertAuthority(cs, Head(remoteCAs), f).err # Ok
    THEN ValidateResult(cs, rcs, UpsertCertAuthority(cs, Head(remoteCAs), f).err, <<>>)
    ELSE ValidateUpserting(UpsertCertAuthority(cs, Head(remoteCAs), f).cas, rcs,
                           Tail(remoteCAs), f)

\* a responder that fails on every CreateRemoteCluster error
ValidateTrackedStrict(cs, rcs, remoteCAs, f, r) ==
    IF r.err # Ok
    THEN ValidateResult(cs, rcs, r.err, <<>>)
    ELSE ValidateUpserting(cs, r.remoteClusters, remoteCAs, f)

\* lines 545-564: r is the result of CreateRemoteCluster, whose
\* already-exists is tolerated
ValidateTracked(cs, rcs, remoteCAs, f, r) ==
    IF r.err # Ok /\ r.err # "already-exists"
    THEN ValidateResult(cs, rcs, r.err, <<>>)
    ELSE ValidateUpserting(cs, r.remoteClusters, remoteCAs, f)

\* a responder that compares only the name the RemoteCluster will get
validateTrustedClusterLastOnly(cs, rcs, validateRequest, f) ==
    IF validateTrustedClusterToken(validateRequest.token) # Ok
    THEN ValidateResult(cs, rcs, validateTrustedClusterToken(validateRequest.token), <<>>)
    ELSE IF validateRequest.cas[Len(validateRequest.cas)].name = LocalDomain
    THEN ValidateResult(cs, rcs, "access-denied", <<>>)
    ELSE ValidateTracked(cs, rcs, validateRequest.cas, f,
                         CreateRemoteCluster(rcs,
                             validateRequest.cas[Len(validateRequest.cas)].name, f))

\* lines 521-583: the token is checked first; no CA may carry the local
\* name; the RemoteCluster is named after the last CA of the request
validateTrustedCluster(cs, rcs, validateRequest, f) ==
    IF validateTrustedClusterToken(validateRequest.token) # Ok
    THEN ValidateResult(cs, rcs, validateTrustedClusterToken(validateRequest.token), <<>>)
    ELSE IF \E k \in 1..Len(validateRequest.cas) : validateRequest.cas[k].name = LocalDomain
    THEN ValidateResult(cs, rcs, "access-denied", <<>>)
    ELSE ValidateTracked(cs, rcs, validateRequest.cas, f,
                         CreateRemoteCluster(rcs,
                             validateRequest.cas[Len(validateRequest.cas)].name, f))

\* the HostCA and the UserCA of a cluster deleted whether or not a
\* RemoteCluster record of that name exists
DeleteRemoteClusterUnguarded(cs, rcs, clusterName, f) ==
    [cas |-> {c \in cs : c.name # clusterName},
     remoteClusters |-> rcs \ {clusterName}, err |-> Ok]

\* lines 433-465: GetRemoteCluster fails with not-found when no record of
\* that name is stored; not-found from either CA deletion is tolerated
DeleteRemoteCluster(cs, rcs, clusterName, f) ==
    IF clusterName \notin rcs
    THEN [cas |-> cs, remoteClusters |-> rcs, err |-> "not-found"]
    ELSE IF DeleteCertAuthority(cs, HostCA, clusterName, f).err \notin {Ok, "not-found"}
    THEN [cas |-> cs, remoteClusters |-> rcs,
          err |-> DeleteCertAuthority(cs, HostCA, clusterName, f).err]
    ELSE IF f = "DeleteUserCA"
    THEN [cas |-> DeleteCertAuthority(cs, HostCA, clusterName, f).cas,
          remoteClusters |-> rcs, err |-> "internal"]
    ELSE IF f = "DeleteRemoteCluster"
    THEN [cas |-> DeleteCertAuthority(
                      DeleteCertAuthority(cs, HostCA, clusterName, f).cas,
                      UserCA, clusterName, f).cas,
          remoteClusters |-> rcs, err |-> "internal"]
    ELSE [cas |-> DeleteCertAuthority(
                      DeleteCertAuthority(cs, HostCA, clusterName, f).cas,
                      UserCA, clusterName, f).cas,
          remoteClusters |-> rcs \ {clusterName}, err |-> Ok]

(***************************************************************************)
(* Concurrent UpsertTrustedCluster calls: one backend call per step        *)
(***************************************************************************)
\* the goroutines that serve UpsertTrustedCluster requests
Procs == {1, 2}

\* a call in flight: where it stands, the descriptor it holds (renamed in
\* place by SetName), the CAs it has still to import (or the CA types it
\* has still to deactivate) and its result
Call(pc, tc, remoteCAs, err) == [pc |-> pc, tc |-> tc, cas |-> remoteCAs, err |-> err]

Returned(call, err) == Call("done", call.tc, <<>>, err)

\* the remote both calls enrol
Remote == "east"

\* the step r of a facade call: its error ends the call, else on to pc
Stepped(call, r, pc) ==
    IF r.err # Ok THEN Returned(call, r.err) ELSE Call(pc, call.tc, <<>>, Ok)

\* lines 98-105 / 122-128: e is the result of establishTrust
Handshaken(call, e) ==
    IF e.err # Ok THEN Returned(call, e.err)
    ELSE IF e.cas = <<>> THEN Returned(call, "panic")
    ELSE Call("import", Pinned(call.tc, e.cas), e.cas, Ok)

\* an import step that goes on whatever CreateCertAuthority returned
ImportedRegardless(call, c) ==
    IF Tail(call.cas) # <<>> THEN Call("import", call.tc, Tail(call.cas), Ok)
    ELSE Call(IF call.tc.enabled THEN "tunnel" ELSE "deactivate", call.tc, <<UserCA, HostCA>>, Ok)

\* lines 408-426, then 111 / 134: c is the result of CreateCertAuthority
\* for the next CA; after the last CA an enabled descriptor gets its
\* tunnel, a disabled one has its CAs deactivated, UserCA first
Imported(call, c) ==
    IF c.err # Ok THEN Returned(call, c.err)
    ELSE IF Tail(call.cas) # <<>> THEN Call("import", call.tc, Tail(call.cas), Ok)
    ELSE Call(IF call.tc.enabled THEN "tunnel" ELSE "deactivate", call.tc, <<UserCA, HostCA>>, Ok)

\* lines 784-791: d is the result of DeactivateCertAuthority for the next type
Deactivated(call, d) ==
    IF d.err # Ok THEN Returned(call, d.err)
    ELSE IF Tail(call.cas) # <<>> THEN Call("deactivate", call.tc, Tail(call.cas), Ok)
    ELSE Call("persist", call.tc, <<>>, Ok)

\* The Ensure Loop's work on one descriptor of its snapshot ("ensureCAs",
\* "ensureTunnel") and a state change of a stored descriptor by
\* UpsertTrustedCluster ("changeCAs", "changeTunnel", "persist"), one
\* backend call per step.  r is the result of ActivateCertAuthority or
\* DeactivateCertAuthority for the next type, found that of
\* getCertAuthorities.  Lines 67-72 and 81-86: UpsertTrustedCluster turns
\* not-found into bad-parameter and returns every error.  Lines 206-231 and
\* 268-270: the loop goes on after not-found, to the first handshake when
\* an enabled descriptor has no CAs at all, else to the tunnel.
Switched(call, r, found) ==
    IF r.err = Ok /\ Tail(call.cas) # <<>>
    THEN Call(call.pc, call.tc, Tail(call.cas), Ok)
    ELSE IF call.pc = "changeCAs"
    THEN IF r.err = "not-found" THEN Returned(call, "bad-parameter")
         ELSE Stepped(call, r, "changeTunnel")
    ELSE IF r.err # Ok /\ r.err # "not-found" THEN Returned(call, r.err)
    ELSE IF r.err = "not-found" /\ call.tc.enabled /\ found = "not-found"
    THEN Call("handshake", call.tc, <<>>, Ok)
    ELSE Call("ensureTunnel", call.tc, <<>>, Ok)

\* r is the result of createReverseTunnel or DeleteReverseTunnel.  Lines
\* 74-76 and 86-88: UpsertTrustedCluster returns every error; line 232:
\* so does ensureEnabled; lines 271-273: ensureDisabled goes on after
\* not-found.
Tunnelled(call, r) ==
    IF call.pc = "changeTunnel" THEN Stepped(call, r, "persist")
    ELSE IF r.err = "not-found" /\ ~call.tc.enabled THEN Returned(call, Ok)
    ELSE Stepped(call, r, "done")

(***************************************************************************)
(* Wire forms of the validation request and response                       *)
(***************************************************************************)
\* longest CA list of a message
MaxCAs == 2
\* conversions applied to one message
MaxHops == 3

\* MarshalCertAuthority: the bytes of a CA, here its type, its cluster
\* name and its certificates in a row; a CA of no known type is refused
MarshalCertAuthority(ca) ==
    IF ca.type \in {UserCA, HostCA}
    THEN [data |-> <<ca.type, ca.clusterName>> \o ca.tls, err |-> Ok]
    ELSE [data |-> <<>>, err |-> "bad-parameter"]

\* UnmarshalCertAuthority: the CA the bytes spell, or an error
UnmarshalCertAuthority(data) ==
    IF Len(data) >= 2 /\ data[1] \in {UserCA, HostCA}
    THEN [ca |-> RemoteCA(data[1], data[2], SubSeq(data, 3, Len(data))), err |-> Ok]
    ELSE [ca |-> RemoteCA("", "", <<>>), err |-> "bad-parameter"]

\* cas = append(cas, ...): head was converted first, rest after it
Appended(head, rest) ==
    IF rest.err # Ok THEN rest ELSE [cas |-> <<head>> \o rest.cas, err |-> Ok]

\* the loops of ToRaw: the first CA that does not marshal ends them
RECURSIVE MarshalEach(_)
MarshalEach(list) ==
    IF list = <<>> THEN [cas |-> <<>>, err |-> Ok]
    ELSE IF MarshalCertAuthority(Head(list)).err # Ok
    THEN [cas |-> <<>>, err |-> MarshalCertAuthority(Head(list)).err]
    ELSE Appended(MarshalCertAuthority(Head(list)).data, MarshalEach(Tail(list)))

\* the loops of ToNative: the first blob that does not unmarshal ends them
RECURSIVE UnmarshalEach(_)
UnmarshalEach(list) ==
    IF list = <<>> THEN [cas |-> <<>>, err |-> Ok]
    ELSE IF UnmarshalCertAuthority(Head(list)).err # Ok
    THEN [cas |-> <<>>, err |-> UnmarshalCertAuthority(Head(list)).err]
    ELSE Appended(UnmarshalCertAuthority(Head(list)).ca, UnmarshalEach(Tail(list)))

\* a message in either form: a request or a response, its token (requests
\* only), its CAs (objects when native, blobs when raw); a conversion
\* returns the message in the new form or the error
Converted(form, kind, token, c) ==
    IF c.err # Ok
    THEN [form |-> "error", kind |-> kind, token |-> "", cas |-> <<>>, err |-> c.err]
    ELSE [form |-> form, kind |-> kind, token |-> token, cas |-> c.cas, err |-> Ok]

\* lines 663-679
RequestToRaw(v) == Converted("raw", "request", v.token, MarshalEach(v.cas))

\* a ToNative that leaves the token behind
RequestRawToNativeNoToken(v) == Converted("native", "request", "", UnmarshalEach(v.cas))

\* lines 686-702
RequestRawToNative(v) == Converted("native", "request", v.token, UnmarshalEach(v.cas))

\* lines 708-723
ResponseToRaw(v) == Converted("raw", "response", "", MarshalEach(v.cas))

\* lines 729-744
ResponseRawToNative(v) == Converted("native", "response", "", UnmarshalEach(v.cas))

ToRaw(v) == IF v.kind = "request" THEN RequestToRaw(v) ELSE ResponseToRaw(v)

ToNative(v) == IF v.kind = "request" THEN RequestRawToNative(v) ELSE ResponseRawToNative(v)

\* CAs a message can carry; the last is of no known type
WireCAs ==
    {RemoteCA(HostCA, "east", <<"east">>), RemoteCA(UserCA, "east", <<"east">>),
     RemoteCA(HostCA, "west", <<>>), RemoteCA("jwt", "east", <<>>)}

\* the messages with at most MaxCAs elements of S; requests carry a token,
\* responses do not
Messages(form, S) ==
    {[form |-> form, kind |-> kind, token |-> token, cas |-> list, err |-> Ok] :
        kind \in {"request"}, token \in {"tok", "nope"},
        list \in UNION {[1..n -> S] : n \in 0..MaxCAs}}
    \cup {[form |-> form, kind |-> kind, token |-> "", cas |-> list, err |-> Ok] :
            kind \in {"response"}, list \in UNION {[1..n -> S] : n \in 0..MaxCAs}}

(***************************************************************************)
(* State machine                                                           *)
(***************************************************************************)
store == Store(cas, tcs, tunnels)

Started ==
    /\ cas = {StoredCA(HostCA, LocalDomain, LocalDomain, TRUE, "", <<LocalDomain>>),
              StoredCA(UserCA, LocalDomain, LocalDomain, TRUE, "", <<LocalDomain>>)}
    /\ tcs = {}
    /\ tunnels = {}
    /\ suspectedOrphanCAs = <<>>
    /\ now = 0
    /\ faults = 0
    /\ remoteClusters = {}
    /\ inFlight = [p \in Procs |-> Call("idle", TrustedCluster("", FALSE, ""), <<>>, Ok)]

Init == Started /\ wire = <<>>

\* the handler's writes to the three stores
Commit(st) ==
    /\ cas' = st.cas
    /\ tcs' = st.tcs
    /\ tunnels' = st.tunnels
    /\ UNCHANGED <<remoteClusters, inFlight, wire>>

UpsertIn(calls) ==
    \E c \in calls :
        /\ Commit(UpsertTrustedCluster(store, c.tc, c.env.out, c.env.f).st)
        /\ faults' = faults + Injected(c.env)
        /\ UNCHANGED <<suspectedOrphanCAs, now>>

EnsureIn(envs) ==
    \E env \in envs :
        /\ Commit(EnsureTrustedClusters(store, <<>>, env.out, env.f).st)
        /\ faults' = faults + Injected(env)
        /\ UNCHANGED <<suspectedOrphanCAs, now>>

DeleteIn(envs) ==
    \E name \in ClusterNames, f \in {env.f : env \in envs} :
        /\ Commit(DeleteTrustedCluster(store, name, f).st)
        /\ faults' = faults + Injected(Env(Honest(name), f))
        /\ UNCHANGED <<suspectedOrphanCAs, now>>

CycleCommit(r, t) ==
    /\ Commit(r.st)
    /\ suspectedOrphanCAs' = r.suspects
    /\ now' = t

CycleIn(envs) ==
    \E t \in now..MaxTime, env \in envs :
        /\ CycleCommit(cycle(store, suspectedOrphanCAs, t, env.out, env.f), t)
        /\ faults' = faults + Injected(env)

\* The reconciler: administrator calls and the Ensure Loop against every
\* answer of the remote, with transient backend failures.
ReconcilerEnvs == Envs(Outcomes, Faults, faults)

Upsert == UpsertIn(UpsertCalls(ReconcilerEnvs))

Ensure == EnsureIn(ReconcilerEnvs)

Delete == DeleteIn(ReconcilerEnvs)

Next == Upsert \/ Ensure \/ Delete

Spec == Init /\ [][Next]_vars

\* The collector: its cycles interleaved with enrolments and deletions.
CollectorEnvs ==
    Envs({Honest("east"), Honest("west"), Bare("east", "west")},
         {"PresenceUpsertTrustedCluster", "DeleteCertAuthority"}, faults)

CollectorUpsert == UpsertIn(UpsertCalls(CollectorEnvs))

CollectorDelete == DeleteIn(CollectorEnvs)

Cycle == CycleIn(CollectorEnvs)

NextCollector == CollectorUpsert \/ CollectorDelete \/ Cycle

SpecCollector == Init /\ [][NextCollector]_vars

\* The responder: validation requests of other clusters served by the
\* auth server that also enrols remotes of its own.
Validate ==
    \E validateRequest \in ValidateRequests,
       f \in {g \in ResponderFaults : g = "none" \/ faults < MaxFaults} :
        /\ cas' = validateTrustedCluster(cas, remoteClusters, validateRequest, f).cas
        /\ remoteClusters' =
              validateTrustedCluster(cas, remoteClusters, validateRequest, f).remoteClusters
        /\ faults' = faults + (IF f = "none" THEN 0 ELSE 1)
        /\ UNCHANGED <<tcs, tunnels, suspectedOrphanCAs, now, inFlight, wire>>

\* an administrator of the responder removes a remote cluster
RemoveRemote ==
    \E clusterName \in ClusterNames,
       f \in {g \in {"none", "DeleteCertAuthority", "DeleteUserCA", "DeleteRemoteCluster"} :
                g = "none" \/ faults < MaxFaults} :
        /\ cas' = DeleteRemoteCluster(cas, remoteClusters, clusterName, f).cas
        /\ remoteClusters' =
              DeleteRemoteCluster(cas, remoteClusters, clusterName, f).remoteClusters
        /\ faults' = faults + (IF f = "none" THEN 0 ELSE 1)
        /\ UNCHANGED <<tcs, tunnels, suspectedOrphanCAs, now, inFlight, wire>>

NextResponder == Validate \/ Upsert \/ RemoveRemote

SpecResponder == Init /\ [][NextResponder]_vars

\* Two UpsertTrustedCluster calls for the same remote, interleaved at
\* their backend calls.  A call starts when its descriptor is not stored
\* (lines 46-51) and its role map names defined roles (lines 92-96).
Begin(p) ==
    \E name \in {"", Remote}, enabled \in BOOLEAN,
       roleMap \in {"admin", "{{internal.logins}}"} :
        /\ inFlight[p].pc = "idle"
        /\ ~(name # "" /\ HasTC(tcs, name))
        /\ inFlight' = [inFlight EXCEPT ![p] =
              Stepped(Call("idle", TrustedCluster(name, enabled, roleMap), <<>>, Ok),
                      [err |-> checkLocalRoles(roleMap)], "handshake")]
        /\ UNCHANGED <<cas, tcs, tunnels, suspectedOrphanCAs, now, faults,
                       remoteClusters, wire>>

Handshake(p) ==
    /\ inFlight[p].pc = "handshake"
    /\ inFlight' = [inFlight EXCEPT ![p] = Handshaken(@, establishTrust(Honest(Remote)))]
    /\ UNCHANGED <<cas, tcs, tunnels, suspectedOrphanCAs, now, faults,
                   remoteClusters, wire>>

ImportCA(p) ==
    /\ inFlight[p].pc = "import"
    /\ cas' = CreateCertAuthority(cas, ImportedCA(inFlight[p].tc, Head(inFlight[p].cas)),
                                  "none").cas
    /\ inFlight' = [inFlight EXCEPT ![p] =
          Imported(@, CreateCertAuthority(cas, ImportedCA(@.tc, Head(@.cas)), "none"))]
    /\ UNCHANGED <<tcs, tunnels, suspectedOrphanCAs, now, faults, remoteClusters, wire>>

Tunnel(p) ==
    /\ inFlight[p].pc = "tunnel"
    /\ tunnels' = createReverseTunnel(tunnels, inFlight[p].tc.name, "none").tunnels
    /\ inFlight' = [inFlight EXCEPT ![p] =
          Stepped(@, createReverseTunnel(tunnels, @.tc.name, "none"), "persist")]
    /\ UNCHANGED <<cas, tcs, suspectedOrphanCAs, now, faults, remoteClusters, wire>>

Deactivate(p) ==
    /\ inFlight[p].pc = "deactivate"
    /\ cas' = DeactivateCertAuthority(cas, Head(inFlight[p].cas), inFlight[p].tc.name,
                                      "none").cas
    /\ inFlight' = [inFlight EXCEPT ![p] =
          Deactivated(@, DeactivateCertAuthority(cas, Head(@.cas), @.tc.name, "none"))]
    /\ UNCHANGED <<tcs, tunnels, suspectedOrphanCAs, now, faults, remoteClusters, wire>>

Persist(p) ==
    /\ inFlight[p].pc = "persist"
    /\ tcs' = PresenceUpsertTrustedCluster(tcs, inFlight[p].tc, "none").tcs
    /\ inFlight' = [inFlight EXCEPT ![p] =
          Stepped(@, PresenceUpsertTrustedCluster(tcs, @.tc, "none"), "done")]
    /\ UNCHANGED <<cas, tunnels, suspectedOrphanCAs, now, faults, remoteClusters, wire>>

NextConcurrent ==
    \E p \in Procs :
        \/ Begin(p) \/ Handshake(p) \/ ImportCA(p)
        \/ Tunnel(p) \/ Deactivate(p) \/ Persist(p)

SpecConcurrent == Init /\ [][NextConcurrent]_vars

\* The collector on an auth server that is also a responder: its cycles
\* interleaved with the validation requests of peers and with enrolments.
NextOrphans == Validate \/ Cycle \/ CollectorUpsert

SpecOrphans == Init /\ [][NextOrphans]_vars

\* An Ensure pass (goroutine 1) and state changes of the same descriptor by
\* UpsertTrustedCluster (goroutine 2), interleaved at their backend calls.
\* The remote was enrolled before, enabled or disabled, by a call that
\* succeeded.
InitInterleaved ==
    \E enabled \in BOOLEAN :
        LET st == UpsertTrustedCluster(
                      Store({StoredCA(HostCA, LocalDomain, LocalDomain, TRUE, "",
                                      <<LocalDomain>>),
                             StoredCA(UserCA, LocalDomain, LocalDomain, TRUE, "",
                                      <<LocalDomain>>)}, {}, {}),
                      TrustedCluster(Remote, enabled, "admin"), Honest(Remote), "none").st
        IN /\ cas = st.cas /\ tcs = st.tcs /\ tunnels = st.tunnels
           /\ suspectedOrphanCAs = <<>> /\ now = 0 /\ faults = 0
           /\ remoteClusters = {} /\ wire = <<>>
           /\ inFlight = [p \in Procs |->
                             Call("idle", TrustedCluster("", FALSE, ""), <<>>, Ok)]

\* lines 165-170: the pass loads the descriptors; lines 172-180: it
\* reconciles each descriptor as loaded, its CAs first
Load(p) ==
    \E d \in tcs :
        /\ p = 1 /\ inFlight[p].pc \in {"idle", "done"}
        /\ inFlight' = [inFlight EXCEPT ![p] = Call("ensureCAs", d, <<UserCA, HostCA>>, Ok)]
        /\ UNCHANGED <<cas, tcs, tunnels, suspectedOrphanCAs, now, faults,
                       remoteClusters, wire>>

\* lines 46-61: the administrator submits a stored descriptor with the
\* enabled flag toggled, a change CanChangeStateTo allows
Submit(p) ==
    \E d \in tcs :
        /\ p = 2 /\ inFlight[p].pc \in {"idle", "done"}
        /\ CanChangeStateTo(d, [d EXCEPT !.enabled = ~d.enabled]) = Ok
        /\ inFlight' = [inFlight EXCEPT ![p] =
              Call("changeCAs", [d EXCEPT !.enabled = ~d.enabled], <<UserCA, HostCA>>, Ok)]
        /\ UNCHANGED <<cas, tcs, tunnels, suspectedOrphanCAs, now, faults,
                       remoteClusters, wire>>

\* lines 748-763 and 784-791: the next CA is activated for an enabled
\* descriptor, deactivated for a disabled one
SwitchCA(p) ==
    /\ inFlight[p].pc \in {"ensureCAs", "changeCAs"}
    /\ cas' = IF inFlight[p].tc.enabled
              THEN ActivateCertAuthority(cas, Head(inFlight[p].cas), inFlight[p].tc.name,
                                         "none").cas
              ELSE DeactivateCertAuthority(cas, Head(inFlight[p].cas), inFlight[p].tc.name,
                                           "none").cas
    /\ inFlight' = [inFlight EXCEPT ![p] =
          Switched(@, IF @.tc.enabled
                      THEN ActivateCertAuthority(cas, Head(@.cas), @.tc.name, "none")
                      ELSE DeactivateCertAuthority(cas, Head(@.cas), @.tc.name, "none"),
                   getCertAuthorities(cas, @.tc.name))]
    /\ UNCHANGED <<tcs, tunnels, suspectedOrphanCAs, now, faults, remoteClusters, wire>>

\* lines 74, 86, 232 and 271: the tunnel is created for an enabled
\* descriptor, deleted for a disabled one
SwitchTunnel(p) ==
    /\ inFlight[p].pc \in {"ensureTunnel", "changeTunnel"}
    /\ tunnels' = IF inFlight[p].tc.enabled
                  THEN createReverseTunnel(tunnels, inFlight[p].tc.name, "none").tunnels
                  ELSE DeleteReverseTunnel(tunnels, inFlight[p].tc.name, "none").tunnels
    /\ inFlight' = [inFlight EXCEPT ![p] =
          Tunnelled(@, IF @.tc.enabled
                       THEN createReverseTunnel(tunnels, @.tc.name, "none")
                       ELSE DeleteReverseTunnel(tunnels, @.tc.name, "none"))]
    /\ UNCHANGED <<cas, tcs, suspectedOrphanCAs, now, faults, remoteClusters, wire>>

NextInterleaved ==
    \E p \in Procs :
        \/ Load(p) \/ Submit(p) \/ SwitchCA(p) \/ SwitchTunnel(p) \/ Persist(p)

SpecInterleaved == InitInterleaved /\ [][NextInterleaved]_vars

\* The wire: a message drawn in either form is converted back and forth;
\* wire holds the forms it has taken, the latest last.
InitWire ==
    /\ Started
    /\ \/ \E v \in Messages("native", WireCAs) : wire = <<v>>
       \/ \E v \in Messages("raw", {MarshalCertAuthority(ca).data : ca \in WireCAs}
                                     \cup {<<HostCA>>, <<"{", "}">>}) : wire = <<v>>

Encode ==
    /\ Len(wire) <= MaxHops /\ wire[Len(wire)].form = "native"
    /\ wire' = Append(wire, ToRaw(wire[Len(wire)]))
    /\ UNCHANGED <<cas, tcs, tunnels, suspectedOrphanCAs, now, faults, remoteClusters,
                   inFlight>>

Decode ==
    /\ Len(wire) <= MaxHops /\ wire[Len(wire)].form = "raw"
    /\ wire' = Append(wire, ToNative(wire[Len(wire)]))
    /\ UNCHANGED <<cas, tcs, tunnels, suspectedOrphanCAs, now, faults, remoteClusters,
                   inFlight>>

NextWire == Encode \/ Decode

SpecWire == InitWire /\ [][NextWire]_vars

(***************************************************************************)
(* Properties                                                              *)
(***************************************************************************)
\* the CA (type, name) is stored in the given state
StoredAs(cs, type, name, active) == \E c \in Lookup(cs, type, name) : c.active = active

\* the state an enabled descriptor stands for
EnabledState(st, name) ==
    /\ StoredAs(st.cas, HostCA, name, TRUE)
    /\ StoredAs(st.cas, UserCA, name, TRUE)
    /\ name \in st.tunnels

\* the state a disabled descriptor stands for
DisabledState(st, name) ==
    /\ StoredAs(st.cas, HostCA, name, FALSE)
    /\ StoredAs(st.cas, UserCA, name, FALSE)
    /\ name \notin st.tunnels

\* the entries of an Ensure pass that reported no error for a descriptor
\* with the given flag
CleanEntries(r, enabled) ==
    {i \in 1..Len(r.res) : r.res[i].enabled = enabled /\ r.res[i].errs = <<>>}

\* the collector's cycles a state allows
CycleCalls == {[t |-> t, env |-> env] : t \in now..MaxTime, env \in CollectorEnvs}

CycleOf(c) == cycle(store, suspectedOrphanCAs, c.t, c.env.out, c.env.f)

\* the CAs a descriptor stored before and after the cycle covers
CoveredThroughout(cs, r) ==
    {c \in cs : \E d \in tcs : d.name = c.clusterName /\ HasTC(r.st.tcs, d.name)}

\* C1: a collector cycle during which a descriptor T is stored from start
\* to end deletes no CA whose cluster_name equals T.name, whether or not an
\* earlier cycle flagged the CA and its grace window has elapsed.
C1_OrphanSafety ==
    \A c \in CycleCalls :
        \A ca \in CoveredThroughout(cas, CycleOf(c)) :
            HasCA(CycleOf(c).st.cas, ca.type, ca.name)

\* C2: an UpsertTrustedCluster call or an Ensure pass that reports no
\* error for an enabled descriptor T leaves an active HostCA and an active
\* UserCA under (type, T.name) and a reverse tunnel named T.name.
C2_EnabledPostcondition ==
    /\ \A c \in UpsertCalls(ReconcilerEnvs) :
          LET r == UpsertTrustedCluster(store, c.tc, c.env.out, c.env.f)
          IN (r.err = Ok /\ r.tc.enabled) => EnabledState(r.st, r.tc.name)
    /\ \A env \in ReconcilerEnvs :
          LET r == EnsureTrustedClusters(store, <<>>, env.out, env.f)
          IN ~r.panic =>
                \A i \in CleanEntries(r, TRUE) : EnabledState(r.st, r.res[i].final)

\* C3: an UpsertTrustedCluster call or an Ensure pass that reports no
\* error for a disabled descriptor T leaves both CAs (HostCA, T.name) and
\* (UserCA, T.name) stored inactive and no reverse tunnel named T.name.
C3_DisabledPostcondition ==
    /\ \A c \in UpsertCalls(ReconcilerEnvs) :
          LET r == UpsertTrustedCluster(store, c.tc, c.env.out, c.env.f)
          IN (r.err = Ok /\ ~r.tc.enabled) => DisabledState(r.st, r.tc.name)
    /\ \A env \in ReconcilerEnvs :
          LET r == EnsureTrustedClusters(store, <<>>, env.out, env.f)
          IN ~r.panic =>
                \A i \in CleanEntries(r, FALSE) : DisabledState(r.st, r.res[i].final)

\* the CAs the import step created: every CA stored under another id than
\* the local cluster's own
ImportedCAs(cs) == {c \in cs : c.name # LocalDomain}

\* C4: in every reachable state no CA created by the import step carries
\* cluster_name equal to the local domain name, whatever the remote
\* returned (a second CA naming the local domain, CAs without TLS key
\* pairs).
C4_NoImportedLocalName ==
    \A c \in ImportedCAs(cas) : c.clusterName # LocalDomain

\* the calls the reconciler accepts in the current state, with their results
Calls == UpsertCalls(ReconcilerEnvs)

ResultOf(c) == UpsertTrustedCluster(store, c.tc, c.env.out, c.env.f)

\* the call is a first enrolment: no descriptor is stored under its name
FirstEnrolment(c) == ~(c.tc.name # "" /\ HasTC(tcs, c.tc.name))

\* the remote answered with at least one CA
Answered(out) == out.err = Ok /\ out.cas # <<>>

\* some returned CA would be stored under an id that is taken
Collides(cs, name, remoteCAs) ==
    \E k \in 1..Len(remoteCAs) : HasCA(cs, remoteCAs[k].type, name)

\* C5: the import is create-only.  addCertAuthorities keeps every stored
\* CA record as it is and fails with already-exists when a target id
\* (type, pinned name) is taken; an UpsertTrustedCluster call that fails
\* with already-exists leaves every stored CA record unchanged, persists no
\* descriptor, creates no reverse tunnel and emits no audit event.
C5_CreateOnlyImport ==
    /\ \A out \in Outcomes, name \in ClusterNames :
          LET a == addCertAuthorities(cas, TrustedCluster(name, TRUE, "admin"),
                                      out.cas, "none")
          IN /\ cas \subseteq a.cas
             /\ Collides(cas, name, out.cas) => a.err = "already-exists"
    /\ \A c \in Calls :
          LET r == ResultOf(c)
          IN /\ (/\ FirstEnrolment(c) /\ Answered(c.env.out) /\ c.env.f = "none"
                 /\ checkLocalRoles(c.tc.roleMap) = Ok
                 /\ establishTrust(c.env.out).err = Ok
                 /\ Collides(cas, c.env.out.cas[1].clusterName, c.env.out.cas))
                => r.err = "already-exists"
             /\ r.err = "already-exists"
                => /\ cas \subseteq r.st.cas
                   /\ r.st.tcs = tcs
                   /\ r.st.tunnels = tunnels
                   /\ r.audit = <<>>

\* the local cluster's own CA is stored and an enrolment collides with it
C5_Witness ==
    \E c \in Calls :
        /\ FirstEnrolment(c) /\ Answered(c.env.out)
        /\ c.env.out.cas[1].clusterName = LocalDomain
        /\ HasCA(cas, HostCA, LocalDomain)
        /\ tcs # {}
        /\ ResultOf(c).err = "already-exists"

\* some returned CA names the local cluster's domain
NamesLocalDomain(out) ==
    out.err = Ok /\ \E k \in 1..Len(out.cas) : out.cas[k].clusterName = LocalDomain

\* C6: UpsertTrustedCluster for a descriptor that is not stored, answered
\* with CAs naming the local domain, fails with bad-parameter, imports no
\* CA, creates no reverse tunnel and persists no descriptor.
C6_SelfNamedResponseRefused ==
    \A c \in Calls :
        (FirstEnrolment(c) /\ c.tc.roleMap \in LocalRoles /\ NamesLocalDomain(c.env.out))
        => /\ ResultOf(c).err = "bad-parameter"
           /\ ResultOf(c).st = store

\* C7: DeleteTrustedCluster(local domain) fails with bad-parameter, leaves
\* every CA, tunnel and descriptor in place and emits no event, whichever
\* backend call would fail.
C7_SelfDeleteRefused ==
    \A f \in Faults :
        LET r == DeleteTrustedCluster(store, LocalDomain, f)
        IN r.err = "bad-parameter" /\ r.st = store /\ r.audit = <<>>

\* the refusal with remote clusters enrolled and a failure injected before
C7_Witness ==
    /\ tcs # {} /\ tunnels # {} /\ faults > 0
    /\ DeleteTrustedCluster(store, LocalDomain, "none").err = "bad-parameter"

\* every record an operation added is keyed by the name R, for each
\* returned CA
KeyedBy(before, after, name, remoteCAs) ==
    /\ \A x \in after \ before : x.name = name
    /\ \A k \in 1..Len(remoteCAs) :
          \E x \in Lookup(after, remoteCAs[k].type, name) :
              x.clusterName = remoteCAs[k].clusterName

\* the state name pinning promises: a descriptor R, none N
PinnedTo(st, N, R) == HasTC(st.tcs, R) /\ ~HasTC(st.tcs, N)

\* the entries of an Ensure pass that renamed a descriptor and reported no
\* error for it
CleanRenames(r) == {i \in 1..Len(r.res) : r.res[i].final # r.res[i].name /\ r.res[i].errs = <<>>}

\* an Ensure pass over the one stored descriptor d
EnsurePasses ==
    {[d |-> d, env |-> env] : d \in tcs, env \in ReconcilerEnvs}

PassOf(p) == EnsureTrustedClusters(store, <<p.d>>, p.env.out, p.env.f)

C9_Idempotence ==
    \A c \in Calls :
        c.env.f = "none"
        => LET once == ResultOf(c)
               twice == UpsertTrustedCluster(once.st, c.tc, c.env.out, c.env.f)
           IN twice.err = once.err /\ twice.st = once.st /\ twice.tc = once.tc

SuspectsOf(suspects) == {suspects[i] : i \in 1..Len(suspects)}

\* the CA is orphan-eligible: its cluster_name is neither the local domain
\* nor the name of a descriptor
Uncovered(ca, ds) == ca.clusterName # LocalDomain /\ ~HasTC(ds, ca.clusterName)

\* orphan-eligible throughout the cycle: for the descriptors stored before
\* and after it and for the descriptors as its Ensure pass left them
Eligible(ca, r) ==
    /\ Uncovered(ca, tcs)
    /\ Uncovered(ca, r.st.tcs)
    /\ \A i \in 1..Len(r.res) : r.res[i].final # ca.clusterName

\* C10: a CA that no descriptor covers is flagged by the first cycle that
\* sees it, with since equal to that cycle's time t0, stays flagged with
\* that time while t - t0 <= orphan_after, and is deleted by the first
\* cycle with t - t0 > orphan_after, provided the backend carries out the
\* deletion.
C10_EventualOrphanDeletion ==
    \A c \in CycleCalls :
        LET r == CycleOf(c)
        IN c.env.f # "DeleteCertAuthority"
           => /\ \A ca \in r.st.cas :
                    (Eligible(ca, r) /\ \A s \in SuspectsOf(suspectedOrphanCAs) : s.ca # ca)
                    => \E s \in SuspectsOf(r.suspects) : s.ca = ca /\ s.since = c.t
              /\ \A s \in SuspectsOf(suspectedOrphanCAs) :
                    /\ (s.ca \in r.st.cas /\ Eligible(s.ca, r) /\ c.t - s.since <= orphanAfter)
                       => s \in SuspectsOf(r.suspects)
                    /\ (Eligible(s.ca, r) /\ c.t - s.since > orphanAfter)
                       => ~HasCA(r.st.cas, s.ca.type, s.ca.name)

\* a CA left behind by an enrolment that failed before the descriptor was
\* persisted, flagged by an earlier cycle, is deleted by a cycle after its
\* grace window
C10_Witness ==
    \E c \in CycleCalls, s \in SuspectsOf(suspectedOrphanCAs) :
        /\ tcs = {} /\ faults > 0
        /\ s.ca \in cas /\ Eligible(s.ca, CycleOf(c))
        /\ c.t - s.since > orphanAfter
        /\ ~HasCA(CycleOf(c).st.cas, s.ca.type, s.ca.name)

\* both CAs of the descriptor are stored, one active and one inactive
Split(cs, name) ==
    /\ HasCA(cs, HostCA, name) /\ HasCA(cs, UserCA, name)
    /\ StoredAs(cs, HostCA, name, TRUE) # StoredAs(cs, UserCA, name, TRUE)

\* both CAs are in the state the descriptor requires
Required(cs, d) ==
    /\ StoredAs(cs, HostCA, d.name, d.enabled)
    /\ StoredAs(cs, UserCA, d.name, d.enabled)

\* the calls that run activateCertAuthority or deactivateCertAuthority for
\* the stored descriptor d, with the state they leave when the HostCA step
\* fails
Interrupted(d) ==
    {UpsertTrustedCluster(store, [d EXCEPT !.enabled = enabled], out, f).st :
        enabled \in BOOLEAN, out \in {Honest(d.name)},
        f \in {"ActivateHostCA", "DeactivateHostCA"}}
    \cup {EnsureTrustedClusters(store, <<d>>, Honest(d.name), f).st :
            f \in {"ActivateHostCA", "DeactivateHostCA"}}

\* the interruption split the CAs of d and left the descriptor as stored
SplitBy(d) ==
    {s \in Interrupted(d) :
        /\ ~Split(cas, d.name) /\ Split(s.cas, d.name)
        /\ HasTC(s.tcs, d.name) /\ GetTC(s.tcs, d.name) = d}

\* C11: when activateCertAuthority or deactivateCertAuthority is
\* interrupted between the UserCA and the HostCA step and the stored
\* descriptor is unchanged, a subsequent Ensure pass over the descriptor
\* brings both CAs to the state the descriptor requires.
C11_SplitHealed ==
    \A d \in tcs : \A s \in SplitBy(d) : \A out \in Outcomes :
        Required(EnsureTrustedClusters(s, <<d>>, out, "none").st.cas, d)

\* scenario S6: the HostCA of the enabled descriptor d is active, its
\* UserCA inactive
SplitActivation(d) ==
    /\ d.enabled
    /\ StoredAs(cas, HostCA, d.name, TRUE)
    /\ StoredAs(cas, UserCA, d.name, FALSE)

\* C12: from a state where (HostCA, T) is active and (UserCA, T) is
\* inactive for an enabled descriptor T, one Ensure pass leaves both CAs
\* active and sends no validation request.
C12_SplitActivationRecovery ==
    /\ \A p \in EnsurePasses :
          SplitActivation(p.d)
          => Required(PassOf(p).st.cas, p.d) /\ PassOf(p).rpc = 0
    /\ \A d \in tcs, env \in ReconcilerEnvs :
          LET r == EnsureTrustedClusters(store, <<>>, env.out, env.f)
          IN (SplitActivation(d) /\ ~r.panic) => Required(r.st.cas, d)

\* a pass over a descriptor in the split state, against a remote that
\* would answer a handshake
C12_Witness ==
    \E p \in EnsurePasses :
        /\ SplitActivation(p.d)
        /\ Answered(p.env.out)
        /\ Required(PassOf(p).st.cas, p.d)
        /\ PassOf(p).rpc = 0

\* the descriptor d submitted with the given flag against the answer out
Toggle(st, d, enabled, out) ==
    UpsertTrustedCluster(st, [d EXCEPT !.enabled = enabled], out, "none")

\* disabling and re-enabling the enrolled descriptor d
Disabled(d, out) == Toggle(store, d, FALSE, out)

Reenabled(d, out) == Toggle(Disabled(d, out).st, d, TRUE, out)

BothStored(cs, name) == HasCA(cs, HostCA, name) /\ HasCA(cs, UserCA, name)

FullPass(env) == EnsureTrustedClusters(store, <<>>, env.out, env.f)

\* the i-th descriptor of the list was reconciled by the pass r
Attempted(r, list, i) == i <= Len(r.res) /\ r.res[i].name = list[i].name

\* C16: EnsureTrustedClusters attempts every descriptor of its input in
\* one pass; whatever happens while one descriptor is reconciled, the
\* remaining descriptors are reconciled too.
C16_EveryDescriptorAttempted ==
    \A env \in ReconcilerEnvs :
        \A i \in 1..Len(TrustedClusterList(tcs)) :
            Attempted(FullPass(env), TrustedClusterList(tcs), i)

\* the same call with a healthy backend
Healthy(c) == UpsertTrustedCluster(store, c.tc, c.env.out, "none")

\* C17: UpsertTrustedCluster persists the descriptor and emits
\* TrustedClusterCreate only after every state-specific action succeeded.
\* A failed call leaves the stored descriptors as they were and emits
\* nothing, a successful call stores its descriptor and emits exactly one
\* TrustedClusterCreate, and a failed emission changes neither the result
\* nor the stored state of the call.
C17_PersistThenAudit ==
    \A c \in Calls :
        /\ ResultOf(c).err # Ok
           => ResultOf(c).st.tcs = tcs /\ ResultOf(c).audit = <<>>
        /\ ResultOf(c).err = Ok
           => /\ ResultOf(c).tc \in ResultOf(c).st.tcs
              /\ c.env.f # "EmitAuditEvent"
                 => ResultOf(c).audit = <<"TrustedClusterCreate">>
        /\ c.env.f = "EmitAuditEvent"
           => /\ ResultOf(c).err = Healthy(c).err
              /\ ResultOf(c).st = Healthy(c).st
              /\ ResultOf(c).tc = Healthy(c).tc

\* an enrolment whose audit emission fails still succeeds, a call fails
\* at the tunnel step after its CAs were imported, and a state change of
\* a stored descriptor succeeds
C17_Witness ==
    /\ \E c \in Calls :
          /\ c.env.f = "EmitAuditEvent" /\ FirstEnrolment(c)
          /\ ResultOf(c).err = Ok /\ ResultOf(c).tc \in ResultOf(c).st.tcs
    /\ \E c \in Calls :
          /\ c.env.f = "UpsertReverseTunnel"
          /\ ResultOf(c).err # Ok /\ ResultOf(c).st.cas # cas
    /\ \E c \in Calls :
          /\ ~FirstEnrolment(c) /\ ResultOf(c).err = Ok
          /\ ResultOf(c).audit = <<"TrustedClusterCreate">>

\* C18: in every reachable state no descriptor named with the local
\* cluster's domain name is stored.
C18_NoLocalDescriptor == ~HasTC(tcs, LocalDomain)

\* the cycle r cannot find the CA orphan-eligible: a descriptor of its
\* Ensure pass covers the CA's cluster_name, or the CA was deleted before
\* the cycle and the cycle imported nothing
NotEligible(ca, r) ==
    \/ \E i \in 1..Len(r.res) : r.res[i].final = ca.clusterName
    \/ ~HasCA(cas, ca.type, ca.name) /\ r.rpc = 0

\* C20: a tracked suspect whose CA is not found orphan-eligible in a cycle
\* (deleted externally, or covered by a descriptor now) is absent from the
\* collector's suspect list after that cycle.
C20_UnseenSuspectDropped ==
    \A c \in CycleCalls :
        ~CycleOf(c).panic
        => \A s \in SuspectsOf(suspectedOrphanCAs) :
              NotEligible(s.ca, CycleOf(c)) => s \notin SuspectsOf(CycleOf(c).suspects)

\* the token is unknown to the responder, or its record carries neither
\* the trusted_cluster capability nor the legacy one
BadToken(token) ==
    \/ token \notin DOMAIN ProvisionTokens
    \/ ProvisionTokens[token] \cap {"Trusted_cluster", "Trustedcluster"} = {}

ValidationOf(q, f) == validateTrustedCluster(cas, remoteClusters, q, f)

\* what the responder answers to the requests that carry a bad token
Refusals ==
    {ValidationOf(q, f).out :
        q \in {r \in ValidateRequests : BadToken(r.token)}, f \in ResponderFaults}

\* the initiator's call c answered with out
Enrolment(c, out) == UpsertTrustedCluster(store, c.tc, out, c.env.f)

\* C14: a request whose token is unknown or lacks the capability fails at
\* the responder with access-denied, creates no RemoteCluster and upserts
\* no inbound CA; the initiator's first enrolment answered that way fails
\* with access-denied and leaves its CAs, tunnels and descriptors as they
\* were and emits no audit event.
C14_BadTokenRejected ==
    /\ \A q \in ValidateRequests, f \in ResponderFaults :
          BadToken(q.token)
          => /\ ValidationOf(q, f).out.err = "access-denied"
             /\ ValidationOf(q, f).cas = cas
             /\ ValidationOf(q, f).remoteClusters = remoteClusters
    /\ \A out \in Refusals, c \in Calls :
          (FirstEnrolment(c) /\ checkLocalRoles(c.tc.roleMap) = Ok)
          => /\ Enrolment(c, out).err = "access-denied"
             /\ Enrolment(c, out).st = store
             /\ Enrolment(c, out).audit = <<>>

\* a responder that has admitted a remote and an initiator that has
\* enrolled one: an unknown token and a node token are both refused, and
\* the same request with a good token would be admitted
C14_Witness ==
    /\ remoteClusters # {} /\ tcs # {}
    /\ \E q \in ValidateRequests :
          /\ q.token = "nope" /\ q.cas = <<InboundCA("west")>>
          /\ ValidationOf(q, "none").out.err = "access-denied"
          /\ ValidationOf([q EXCEPT !.token = "node"], "none").out.err = "access-denied"
          /\ ValidationOf([q EXCEPT !.token = "tok"], "none").out.err = Ok
    /\ \E c \in Calls : FirstEnrolment(c) /\ c.tc.roleMap = "admin"

AllReturned == \A p \in Procs : inFlight[p].pc = "done"

\* the record the call of w leaves for the remote's CA of a type
RecordOf(w, type) ==
    [ImportedCA(inFlight[w].tc, RemoteCA(type, Remote, <<Remote>>))
        EXCEPT !.active = inFlight[w].tc.enabled]

\* w won and l lost
Won(w, l) ==
    /\ inFlight[w].err = Ok /\ inFlight[l].err = "already-exists"
    /\ tcs = {inFlight[w].tc} /\ inFlight[w].tc.name = Remote
    /\ \A type \in {HostCA, UserCA} : Lookup(cas, type, Remote) = {RecordOf(w, type)}

\* C15: for every interleaving of two UpsertTrustedCluster calls that enrol
\* the same remote, one call wins and the other fails with already-exists
\* at the CA import; afterwards each CA id (type, remote name) is stored
\* once with the winner's record and exactly one descriptor for the remote
\* exists.
C15_ConcurrentEnrolment ==
    /\ \A type \in {HostCA, UserCA} : Cardinality(Lookup(cas, type, Remote)) <= 1
    /\ AllReturned => Won(1, 2) \/ Won(2, 1)

\* the loser submitted the remote's name and a different role map, and
\* passed the existence check before the winner persisted its descriptor
C15_Witness ==
    /\ AllReturned /\ Won(2, 1)
    /\ inFlight[1].tc.name = Remote
    /\ inFlight[1].tc.roleMap # inFlight[2].tc.roleMap
    /\ inFlight[1].tc.enabled # inFlight[2].tc.enabled

\* the raw message v has a native form
Decodes(v) == v.form = "raw" /\ ToNative(v).form = "native"

\* the native form of v holds the CA of each blob of v, in the order of v
SameOrder(v) ==
    /\ Len(ToNative(v).cas) = Len(v.cas)
    /\ \A k \in 1..Len(v.cas) : ToNative(v).cas[k] = UnmarshalCertAuthority(v.cas[k]).ca

DeletedBy(r) == {ca \in cas : ~HasCA(r.st.cas, ca.type, ca.name)}

\* the tracked suspects with the id of ca
FlaggedAs(ca) ==
    {s \in SuspectsOf(suspectedOrphanCAs) : s.ca.type = ca.type /\ s.ca.name = ca.name}

\* a cycle deletes a CA only when an earlier cycle flagged it more than
\* orphan_after before
DeletedAfterGrace ==
    \A c \in CycleCalls : \A ca \in DeletedBy(CycleOf(c)) :
        \E s \in FlaggedAs(ca) : c.t - s.since > orphanAfter

\* a suspect within its grace window stays tracked and its CA stays stored
KeptWithinGrace ==
    \A c \in CycleCalls :
        ~CycleOf(c).panic
        => \A s \in SuspectsOf(suspectedOrphanCAs) :
              c.t - s.since <= orphanAfter
              => /\ s \in SuspectsOf(CycleOf(c).suspects)
                 /\ s.ca \in cas => HasCA(CycleOf(c).st.cas, s.ca.type, s.ca.name)

\* C21: grace window.  The collector deletes a CA only in a cycle at time
\* t for which an earlier cycle flagged that CA at time since with
\* t - since > orphan_after; a suspect with t - since <= orphan_after is
\* kept in the suspect list and its CA is not deleted.
C21_GraceWindow == DeletedAfterGrace /\ KeptWithinGrace

\* C23: every operation that removes a descriptor's reverse tunnel
\* tolerates not-found from the tunnel deletion.  With the tunnel already
\* absent and every other step succeeding, UpsertTrustedCluster with
\* enabled = false on a stored descriptor, ensureDisabled and
\* DeleteTrustedCluster succeed.
C23_TunnelDeleteTolerated ==
    \A d \in tcs :
        (d.name \notin tunnels /\ d.name # LocalDomain)
        => /\ ensureDisabled(store, d, "none").err = Ok
           /\ DeleteTrustedCluster(store, d.name, "none").err = Ok
           /\ deactivateCertAuthority(cas, d.name, "none").err = Ok
              => Toggle(store, d, FALSE, Honest(d.name)).err = Ok

\* the requests in which some inbound CA carries the responder's own name
Colliding ==
    {q \in ValidateRequests : \E k \in 1..Len(q.cas) : q.cas[k].name = LocalDomain}

\* C24: a request in which any inbound CA, at any position, is named with
\* the responder's own domain name is rejected (access-denied when the
\* token is good) before any write: no RemoteCluster is created and none of
\* the request's CAs is upserted.
C24_IdentityCollisionRejected ==
    \A q \in Colliding, f \in ResponderFaults :
        /\ ValidationOf(q, f).out.err = "access-denied"
        /\ ValidationOf(q, f).cas = cas
        /\ ValidationOf(q, f).remoteClusters = remoteClusters

\* a responder that has admitted east refuses the request whose first CA
\* is named root and whose last CA is west, which it does not know yet
C24_Witness ==
    /\ "east" \in remoteClusters /\ "west" \notin remoteClusters
    /\ ~HasCA(cas, HostCA, "west")
    /\ \E q \in Colliding :
          /\ q.token = "tok" /\ q.cas = <<InboundCA("root"), InboundCA("west")>>
          /\ ValidationOf(q, "none").out.err = "access-denied"

\* the requests the responder admits
Admitted ==
    {q \in ValidateRequests \ Colliding : ~BadToken(q.token)}

Again(q) ==
    validateTrustedCluster(ValidationOf(q, "none").cas,
                           ValidationOf(q, "none").remoteClusters, q, "none")

\* C25: a request with a valid token and no colliding CA leaves a
\* RemoteCluster named after the last inbound CA (a record that exists
\* already is not an error), stores every inbound CA under its own id, and
\* returns the responder's own HostCA followed by its own UserCA; the same
\* request repeated leaves the same stores and returns the same response.
C25_AdmissionPostcondition ==
    \A q \in Admitted :
        /\ ValidationOf(q, "none").out.err = Ok
        /\ ValidationOf(q, "none").remoteClusters
              = remoteClusters \cup {q.cas[Len(q.cas)].name}
        /\ \A k \in 1..Len(q.cas) :
              Lookup(ValidationOf(q, "none").cas, q.cas[k].type, q.cas[k].name)
                 = {q.cas[k]}
        /\ ValidationOf(q, "none").out.cas
              = <<Exported(cas, HostCA), Exported(cas, UserCA)>>
        /\ Again(q) = ValidationOf(q, "none")

\* the responder has admitted east before and admits it again together
\* with west: the record of west is new, the CA of east is overwritten
C25_Witness ==
    /\ "east" \in remoteClusters /\ "west" \notin remoteClusters
    /\ HasCA(cas, HostCA, "east")
    /\ \E q \in Admitted :
          /\ q.cas = <<InboundCA("east"), InboundCA("west")>>
          /\ ValidationOf(q, "none").out.err = Ok
          /\ "west" \in ValidationOf(q, "none").remoteClusters

Deletion(name, f) == DeleteTrustedCluster(store, name, f)

\* C26: DeleteTrustedCluster(name), name not the local domain.  After a
\* successful call no HostCA or UserCA of that name, no reverse tunnel and
\* no descriptor of that name remain; a missing CA or tunnel does not fail
\* the call; a call that fails leaves the descriptor stored; the audit
\* event TrustedClusterDelete is emitted only by a call that succeeds.
C26_DeletePostcondition ==
    \A name \in ClusterNames \ {LocalDomain}, f \in Faults :
        /\ Deletion(name, f).err = Ok
           => /\ ~HasCA(Deletion(name, f).st.cas, HostCA, name)
              /\ ~HasCA(Deletion(name, f).st.cas, UserCA, name)
              /\ name \notin Deletion(name, f).st.tunnels
              /\ ~HasTC(Deletion(name, f).st.tcs, name)
        /\ (HasTC(tcs, name) /\ f \in {"none", "EmitAuditEvent"})
           => Deletion(name, f).err = Ok
        /\ Deletion(name, f).err # Ok => Deletion(name, f).st.tcs = tcs
        /\ Deletion(name, f).audit # <<>> => Deletion(name, f).err = Ok
        /\ (Deletion(name, f).err = Ok /\ f # "EmitAuditEvent")
           => Deletion(name, f).audit = <<"TrustedClusterDelete">>

\* a deletion has failed after the CAs were removed: the descriptor of east
\* is still stored, its CAs and its tunnel are absent, and the deletion
\* repeated succeeds
C26_Witness ==
    /\ HasTC(tcs, "east") /\ "east" \notin tunnels
    /\ ~HasCA(cas, HostCA, "east") /\ ~HasCA(cas, UserCA, "east")
    /\ Deletion("east", "none").err = Ok
    /\ ~HasTC(Deletion("east", "none").st.tcs, "east")

Removal(name, f) == DeleteRemoteCluster(cas, remoteClusters, name, f)

RemovalFaults == {"none", "DeleteCertAuthority", "DeleteUserCA", "DeleteRemoteCluster"}

\* C27: DeleteRemoteCluster(name) deletes CAs only when a RemoteCluster
\* record of that name exists; without one it fails and deletes nothing.
\* No RemoteCluster is ever named with the local domain, so
\* DeleteRemoteCluster(local domain) never deletes the local cluster's own
\* HostCA or UserCA.
C27_RemoteDeleteGuarded ==
    /\ LocalDomain \notin remoteClusters
    /\ \A name \in ClusterNames, f \in RemovalFaults :
          /\ name \notin remoteClusters
             => /\ Removal(name, f).err # Ok
                /\ Removal(name, f).cas = cas
                /\ Removal(name, f).remoteClusters = remoteClusters
          /\ Removal(name, f).cas # cas => name \in remoteClusters
          /\ Lookup(Removal(LocalDomain, f).cas, HostCA, LocalDomain)
                = Lookup(cas, HostCA, LocalDomain)
          /\ Lookup(Removal(LocalDomain, f).cas, UserCA, LocalDomain)
                = Lookup(cas, UserCA, LocalDomain)

\* the record of east is stored without its CAs after a removal that
\* failed at the record, the CAs of west are stored without a record of
\* west, and the local cluster has its own CAs: removing east succeeds,
\* removing west or the local domain fails and deletes nothing
C27_Witness ==
    /\ "east" \in remoteClusters /\ ~HasCA(cas, HostCA, "east")
    /\ "west" \notin remoteClusters /\ HasCA(cas, HostCA, "west")
    /\ HasCA(cas, HostCA, LocalDomain) /\ HasCA(cas, UserCA, LocalDomain)
    /\ Removal("east", "none").err = Ok
    /\ Removal("west", "none").err = "not-found"
    /\ Removal(LocalDomain, "none").err = "not-found"

\* the stored descriptor d under the name R
RenamedTo(d, R) == [d EXCEPT !.name = R]

CommitFaults == {"PresenceUpsertTrustedCluster", "PresenceDeleteTrustedCluster"}

\* the i-th iteration of the pass renamed its descriptor
RenamedAt(r, i) == r.res[i].final # r.res[i].name

\* the commit of the rename of the stored descriptor d to R
CommitOrdered(d, R) ==
    /\ HasTC(PresenceUpsertTrustedCluster(tcs, RenamedTo(d, R), "none").tcs, R)
    /\ HasTC(PresenceUpsertTrustedCluster(tcs, RenamedTo(d, R), "none").tcs, d.name)
    /\ HasTC(RenameCommit(tcs, RenamedTo(d, R), d.name, "none").tcs, R)
    /\ ~HasTC(RenameCommit(tcs, RenamedTo(d, R), d.name, "none").tcs, d.name)
    /\ RenameCommit(tcs, RenamedTo(d, R), d.name, "none").errs = <<>>
    /\ RenameCommit(tcs, RenamedTo(d, R), d.name, "PresenceUpsertTrustedCluster").tcs = tcs
    /\ HasTC(RenameCommit(tcs, RenamedTo(d, R), d.name,
                          "PresenceDeleteTrustedCluster").tcs, R)
    /\ HasTC(RenameCommit(tcs, RenamedTo(d, R), d.name,
                          "PresenceDeleteTrustedCluster").tcs, d.name)
    /\ \A f \in CommitFaults :
          RenameCommit(tcs, RenamedTo(d, R), d.name, f).errs = <<"internal">>

\* the pass of environment env adds the failure of a commit to its
\* aggregate and goes on to the next descriptor
CommitAggregated(env) ==
    \A i \in 1..Len(FullPass(env).res) :
        RenamedAt(FullPass(env), i)
        => /\ env.f \in CommitFaults
              => FullPass(env).res[i].errs[Len(FullPass(env).res[i].errs)] = "internal"
           /\ i < Len(TrustedClusterList(tcs))
              => Attempted(FullPass(env), TrustedClusterList(tcs), i + 1)
           /\ \/ HasTC(FullPass(env).st.tcs, FullPass(env).res[i].final)
              \/ HasTC(FullPass(env).st.tcs, FullPass(env).res[i].name)

\* C28: when the Ensure Loop renames a descriptor from N to R, the record R
\* is written before the record N is deleted, so at least one of the two is
\* stored at every step; if writing R fails, N is not deleted; if deleting N
\* fails, both remain; either failure is added to the aggregate and the
\* pass continues with the next descriptor.
C28_RenameCommitOrdering ==
    /\ \A d \in tcs : \A R \in ClusterNames \ {d.name} : CommitOrdered(d, R)
    /\ \A env \in ReconcilerEnvs : CommitAggregated(env)

\* two descriptors are stored and no failure was injected yet; a pass whose
\* remote answers as west renames east, the deletion of the record east
\* fails, both records are stored afterwards, and the pass goes on to west
C28_Witness ==
    /\ HasTC(tcs, "east") /\ HasTC(tcs, "west") /\ faults < MaxFaults
    /\ \E env \in ReconcilerEnvs :
          /\ env.f = "PresenceDeleteTrustedCluster"
          /\ RenamedAt(FullPass(env), 1)
          /\ FullPass(env).res[1].name = "east"
          /\ FullPass(env).res[1].errs[Len(FullPass(env).res[1].errs)] = "internal"
          /\ Len(FullPass(env).res) >= 2
          /\ HasTC(FullPass(env).st.tcs, "east")

\* a first enrolment under the name, with the role map, answered with out
Enrolling(name, enabled, roleMap, out, f) ==
    UpsertTrustedCluster(store, TrustedCluster(name, enabled, roleMap), out, f)

\* C29: UpsertTrustedCluster for a descriptor that is not stored, whose
\* role map names a local role that is neither defined nor a template
\* expansion, fails with not-found before the validation request is sent:
\* the responder is not contacted and no CA, tunnel, descriptor or audit
\* event is created.
C29_UndefinedRoleRejected ==
    \A name \in SubmittedNames, enabled \in BOOLEAN, out \in Outcomes, f \in Faults :
        ~HasTC(tcs, name)
        => /\ Enrolling(name, enabled, "nobody", out, f).err = "not-found"
           /\ Enrolling(name, enabled, "nobody", out, f).rpc = 0
           /\ Enrolling(name, enabled, "nobody", out, f).st = store
           /\ Enrolling(name, enabled, "nobody", out, f).audit = <<>>

\* east is enrolled, west is not: the enrolment of west with an undefined
\* role fails with not-found, the same enrolment with a defined role or
\* with a template expansion sends the request and succeeds
C29_Witness ==
    /\ HasTC(tcs, "east") /\ ~HasTC(tcs, "west") /\ ~HasCA(cas, HostCA, "west")
    /\ Enrolling("west", TRUE, "nobody", Honest("west"), "none").err = "not-found"
    /\ Enrolling("west", TRUE, "admin", Honest("west"), "none").err = Ok
    /\ Enrolling("west", TRUE, "admin", Honest("west"), "none").rpc = 1
    /\ Enrolling("west", TRUE, "{{internal.logins}}", Honest("west"), "none").err = Ok

\* ensureEnabled for the stored descriptor of the pass p
Reconciled(p) == ensureEnabled(store, p.d, p.env.out, p.env.f)

\* ensureEnabled renamed the descriptor and then failed, and the backend
\* serves the two writes of the commit
RenamedThenFailed(p) ==
    /\ p.d.enabled /\ Reconciled(p).renamed /\ Reconciled(p).err # Ok
    /\ p.env.f \notin CommitFaults

\* C30: when ensureEnabled renames the descriptor after a successful
\* handshake and then fails at the CA import or at the reverse tunnel,
\* EnsureTrustedClusters still commits the rename (the descriptor is stored
\* under the new name, the old record is deleted) and reports the failure
\* in its aggregate; when establishTrust itself failed no descriptor is
\* renamed in the store.
C30_RenameCommittedOnFailure ==
    \A p \in EnsurePasses :
        /\ RenamedThenFailed(p)
           => /\ Reconciled(p).tc \in PassOf(p).st.tcs
              /\ Reconciled(p).tc.name # p.d.name
              /\ ~HasTC(PassOf(p).st.tcs, p.d.name)
              /\ PassOf(p).res[1].errs = <<Reconciled(p).err>>
        /\ establishTrust(p.env.out).err # Ok => PassOf(p).st.tcs = tcs

\* the descriptor east has lost its UserCA and the CAs of west are stored:
\* the pass shakes hands with a remote that answers as west, renames the
\* descriptor, fails to import the CAs and still stores the descriptor as
\* west; a pass whose handshake is refused leaves the descriptors alone
C30_Witness ==
    \E p \in EnsurePasses :
        /\ p.d.name = "east" /\ RenamedThenFailed(p)
        /\ Reconciled(p).err = "already-exists"
        /\ HasTC(PassOf(p).st.tcs, "west") /\ ~HasTC(PassOf(p).st.tcs, "east")
        /\ \E q \in EnsurePasses :
              /\ q.d = p.d /\ establishTrust(q.env.out).err # Ok
              /\ Reconciled(q).rpc = 1

\* no call is in flight
Quiescent == \A p \in Procs : inFlight[p].pc \in {"idle", "done"}

\* the CAs and the reverse tunnel match every stored descriptor
Converged(st) ==
    \A d \in st.tcs :
        IF d.enabled THEN EnabledState(st, d.name) ELSE DisabledState(st, d.name)

PeerCAs ==
    {ca \in cas : /\ ca.name \in remoteClusters /\ ca = InboundCA(ca.name)
                  /\ ~HasTC(tcs, ca.name)}

\* C31: the collector's orphan test consults the local domain name and the
\* TrustedCluster descriptors, never the RemoteCluster records.  A CA that
\* validateTrustedCluster stored for a peer with a RemoteCluster record and
\* no descriptor of the same name is flagged by the next cycle, with that
\* cycle's time, stays flagged while it is stored and no more than
\* orphan_after has passed, and is deleted by the cycle that finds more
\* than orphan_after passed, provided the backend carries out the deletion.
C31_PeerCAOrphaned ==
    \A c \in CycleCalls : \A ca \in PeerCAs :
        (c.env.f # "DeleteCertAuthority" /\ Eligible(ca, CycleOf(c)))
        => /\ (\A s \in SuspectsOf(suspectedOrphanCAs) : s.ca # ca)
              => \E s \in SuspectsOf(CycleOf(c).suspects) :
                    s.ca = ca /\ s.since = c.t
           /\ \A s \in SuspectsOf(suspectedOrphanCAs) :
                 /\ (s.ca = ca /\ c.t - s.since <= orphanAfter
                        /\ ca \in CycleOf(c).st.cas)
                    => s \in SuspectsOf(CycleOf(c).suspects)
                 /\ (s.ca = ca /\ c.t - s.since > orphanAfter)
                    => ~HasCA(CycleOf(c).st.cas, ca.type, ca.name)

\* the peer east was admitted and has no descriptor; a cycle flagged its CA
\* more than orphan_after ago, and a cycle run now deletes the CA while the
\* RemoteCluster record stays
C31_Witness ==
    /\ "east" \in remoteClusters /\ ~HasTC(tcs, "east")
    /\ InboundCA("east") \in PeerCAs
    /\ \E s \in SuspectsOf(suspectedOrphanCAs) :
          /\ s.ca = InboundCA("east")
          /\ \E c \in CycleCalls :
                /\ c.env.f = "none" /\ c.t - s.since > orphanAfter
                /\ ~HasCA(CycleOf(c).st.cas, HostCA, "east")

====
